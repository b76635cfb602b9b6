------------------------------- MODULE Codec --------------------------------
(***************************************************************************)
(* Messages as packets (src/rpc.c, log-entry.c, util.h): a sender packs a  *)
(* message into a packet on its stack, whatever was on the stack, and the  *)
(* receiver unpacks it by its code.  The transport carries the packet whole.*)
(*                                                                         *)
(* A byte is a digit in base Base (256 in the code) and a word has four    *)
(* bytes.  A packing is the list of fields it writes, an unpacking the     *)
(* list it reads; they are written apart in the code and so they are here. *)
(***************************************************************************)
EXTENDS Integers, FiniteSetsExt, SequencesExt

CONSTANTS
    Base,
    MAX_PAYLOAD,
    MAX_APPEND_ENTRIES_N,
    MaxLog                  \* bound: the leader's log

(* Entries are written before payload_n is compared with MAX_PAYLOAD. *)
ASSUME PayloadAssumption ==
    /\ Base \in Nat \ {0, 1}
    /\ 24 + 16 * MAX_APPEND_ENTRIES_N <= MAX_PAYLOAD

VARIABLES
    sent,       \* the message that was packed
    pkt,        \* its packet
    got         \* what was unpacked, and how many bytes were read

vars == <<sent, pkt, got>>

Byte == 0 .. Base - 1
Word == 0 .. Base^4 - 1
Nothing == [rc |-> 1]

-----------------------------------------------------------------------------
(* util.h: words in big-endian order.  p[at] is the first byte. *)

(* Mutant: the last byte is not cut to eight bits. *)
write_u32_uncut(v) == <<(v \div Base^3) % Base, (v \div Base^2) % Base, (v \div Base) % Base, v>>

write_u32_be(v) ==
    <<(v \div Base^3) % Base, (v \div Base^2) % Base, (v \div Base) % Base, v % Base>>

read_u32_be(p, at) == p[at] * Base^3 + p[at + 1] * Base^2 + p[at + 2] * Base + p[at + 3]

(* Conversions between int and uint32_t. *)
ToUnsigned(i) == i % Base^4
ToSigned(w) == IF 2 * w >= Base^4 THEN w - Base^4 ELSE w

-----------------------------------------------------------------------------
(* Fields, in the order in which they are written or read *)

Field(type, name) == [type |-> type, name |-> name]
U32(names) == [i \in DOMAIN names |-> Field("uint32_t", names[i])]
Size(f) == IF f.type = "uint8_t" THEN 1 ELSE 4
Extent(fields) == MapThenSumSet(LAMBDA i : Size(fields[i]), DOMAIN fields)

Put(fields, m) ==
    FlattenSeq([i \in DOMAIN fields |->
        IF fields[i].type = "uint8_t" THEN <<m[fields[i].name] % Base>>
        ELSE write_u32_be(ToUnsigned(m[fields[i].name]))])

Get(fields, p, at) ==
    LET Pos(name) == CHOOSE i \in DOMAIN fields : fields[i].name = name
        Value(i) ==
            LET from == at + Extent(SubSeq(fields, 1, i - 1))
            IN  CASE fields[i].type = "uint8_t" -> p[from]
                  [] fields[i].type = "uint32_t" -> read_u32_be(p, from)
                  [] fields[i].type = "int" -> ToSigned(read_u32_be(p, from))
    IN  [name \in {fields[i].name : i \in DOMAIN fields} |-> Value(Pos(name))]

log_entry_pack == U32(<<"term", "client_id", "cmd_seqno", "cmd">>)
log_entry_unpack == U32(<<"term", "client_id", "cmd_seqno", "cmd">>)
log_entry_packed_size == 16

rpc_pack_append_entries_req ==
    U32(<<"term", "leader_id", "prev_log_idx", "prev_log_term">>)
        \o <<Field("int", "leader_commit")>> \o U32(<<"n_entries">>)
rpc_pack_append_entries_res ==
    U32(<<"term", "new_match_index">>) \o <<Field("uint8_t", "success")>>
rpc_pack_request_vote_req ==
    U32(<<"term", "candidate_id", "last_log_idx", "last_log_term">>)
rpc_pack_request_vote_res == U32(<<"term">>) \o <<Field("uint8_t", "vote_granted")>>
rpc_pack_proc_req == U32(<<"client_id", "cmd_seqno", "cmd">>)

(* Mutant: the term, which came last to this message, is not packed. *)
rpc_pack_proc_res_short ==
    U32(<<"client_id", "cmd_seqno">>) \o <<Field("uint8_t", "success")>> \o U32(<<"leader_hint">>)

rpc_pack_proc_res ==
    U32(<<"client_id", "cmd_seqno">>) \o <<Field("uint8_t", "success")>>
        \o U32(<<"leader_hint", "term">>)

(* Mutant: leader_commit is read as it was sent, without its sign. *)
rpc_unpack_unsigned ==
    [expected |-> 24,
     fields |-> U32(<<"term", "leader_id", "prev_log_idx", "prev_log_term",
                      "leader_commit", "n_entries">>)]

(* Unpacking: the smallest payload it accepts, and what it reads. *)
rpc_unpack_append_entries_req ==
    [expected |-> 24,
     fields |-> U32(<<"term", "leader_id", "prev_log_idx", "prev_log_term">>)
                    \o <<Field("int", "leader_commit")>> \o U32(<<"n_entries">>)]
rpc_unpack_append_entries_res ==
    [expected |-> 9,
     fields |-> U32(<<"term", "new_match_index">>) \o <<Field("uint8_t", "success")>>]
rpc_unpack_request_vote_req ==
    [expected |-> 16,
     fields |-> U32(<<"term", "candidate_id", "last_log_idx", "last_log_term">>)]
rpc_unpack_request_vote_res ==
    [expected |-> 5, fields |-> U32(<<"term">>) \o <<Field("uint8_t", "vote_granted")>>]
rpc_unpack_proc_req ==
    [expected |-> 12, fields |-> U32(<<"client_id", "cmd_seqno", "cmd">>)]
rpc_unpack_proc_res ==
    [expected |-> 13,
     fields |-> U32(<<"client_id", "cmd_seqno">>) \o <<Field("uint8_t", "success")>>
                    \o U32(<<"leader_hint", "term">>)]

Packing ==
    [RPC_CALL_APPEND_ENT |-> rpc_pack_append_entries_req,
     RPC_RESP_APPEND_ENT |-> rpc_pack_append_entries_res,
     RPC_CALL_REQ_VOTE |-> rpc_pack_request_vote_req,
     RPC_RESP_REQ_VOTE |-> rpc_pack_request_vote_res,
     RPC_CALL_PROC |-> rpc_pack_proc_req,
     RPC_RESP_PROC |-> rpc_pack_proc_res]

(* raft_handle_rpc, and the clients for RPC_RESP_PROC. *)
Unpacking ==
    [RPC_CALL_APPEND_ENT |-> rpc_unpack_append_entries_req,
     RPC_RESP_APPEND_ENT |-> rpc_unpack_append_entries_res,
     RPC_CALL_REQ_VOTE |-> rpc_unpack_request_vote_req,
     RPC_RESP_REQ_VOTE |-> rpc_unpack_request_vote_res,
     RPC_CALL_PROC |-> rpc_unpack_proc_req,
     RPC_RESP_PROC |-> rpc_unpack_proc_res]

Code == DOMAIN Packing

-----------------------------------------------------------------------------
(* rpc.h: the messages.  Different fields of one message differ in value. *)

Members ==
    [RPC_CALL_APPEND_ENT |->
        <<"term", "leader_id", "prev_log_idx", "prev_log_term", "leader_commit", "n_entries">>,
     RPC_RESP_APPEND_ENT |-> <<"term", "new_match_index", "success">>,
     RPC_CALL_REQ_VOTE |-> <<"term", "candidate_id", "last_log_idx", "last_log_term">>,
     RPC_RESP_REQ_VOTE |-> <<"term", "vote_granted">>,
     RPC_CALL_PROC |-> <<"client_id", "cmd_seqno", "cmd">>,
     RPC_RESP_PROC |-> <<"client_id", "cmd_seqno", "success", "leader_hint", "term">>]

(* Indices of -1 and NO_LEADER are the largest word; commit_index is an int *)
(* that is -1 at least.                                                     *)
Value(name, w, n) ==
    CASE name \in {"success", "vote_granted"} -> w % 2
      [] name = "leader_commit" -> Max({-1, ToSigned(w)})
      [] name = "n_entries" -> n
      [] OTHER -> w

Message(code, w, n) ==
    [name \in Range(Members[code]) |->
        Value(name, ToUnsigned(w + CHOOSE i \in DOMAIN Members[code] : Members[code][i] = name), n)]

Entry(w) == [term |-> w, client_id |-> ToUnsigned(w + 1),
             cmd_seqno |-> ToUnsigned(w + 2), cmd |-> ToUnsigned(w + 3)]

(* broadcast_append_entries: how many entries follow next_index. *)
n_to_send(log_len, next_index) == Max({0, Min({log_len - next_index, MAX_APPEND_ENTRIES_N})})

-----------------------------------------------------------------------------
(* The packet starts with whatever is on the stack, payload_n included.    *)
(* The result of packing is ignored.                                       *)
Pack(code, m, entries, stack) ==
    LET bytes == Put(Packing[code], m)
                     \o FlattenSeq([i \in DOMAIN entries |-> Put(log_entry_pack, entries[i])])
        whole == Len(entries) <= MAX_APPEND_ENTRIES_N
        written == IF whole THEN bytes ELSE Put(Packing[code], m)
    IN  /\ sent.code = "none"
        /\ sent' = [code |-> code, m |-> m, entries |-> entries]
        /\ pkt' = [code |-> code,
                   payload_n |-> IF whole THEN Len(bytes) ELSE stack,
                   payload |-> [i \in 1 .. MAX_PAYLOAD |->
                                   IF i <= Len(written) THEN written[i] ELSE stack]]
        /\ got' = Nothing

(* The leader's requests: heartbeats, and entries of its log. *)
SendEntries ==
    \E w \in Word, stack \in Byte, log_len \in 0 .. MaxLog :
        \E next_index \in 0 .. log_len :
            LET n == n_to_send(log_len, next_index)
            IN  Pack("RPC_CALL_APPEND_ENT", Message("RPC_CALL_APPEND_ENT", w, n),
                     [j \in 1 .. n |-> Entry(ToUnsigned(w + 4 * (next_index + j)))], stack)

SendOther ==
    \E code \in Code \ {"RPC_CALL_APPEND_ENT"}, w \in Word, stack \in Byte :
        Pack(code, Message(code, w, 0), <<>>, stack)

(* rpc_unpack_*: -1 if the payload is too short or has too many entries. *)
Unpack ==
    LET u == Unpacking[pkt.code]
        m == Get(u.fields, pkt.payload, 1)
        n == IF pkt.code = "RPC_CALL_APPEND_ENT" THEN m.n_entries ELSE 0
        refused == \/ pkt.payload_n < u.expected
                   \/ n > MAX_APPEND_ENTRIES_N
                   \/ n > 0 /\ pkt.payload_n < 24 + n * log_entry_packed_size
        base == 1 + Extent(u.fields)
        entries == [i \in 1 .. n |->
                        Get(log_entry_unpack, pkt.payload, base + (i - 1) * Extent(log_entry_unpack))]
    IN  /\ sent.code # "none" /\ got = Nothing
        /\ got' = IF refused THEN [rc |-> -1]
                  ELSE [rc |-> 0, m |-> m, entries |-> entries,
                        read |-> Extent(u.fields) + n * Extent(log_entry_unpack)]
        /\ UNCHANGED <<sent, pkt>>

(* The handler returns. *)
Done ==
    /\ got # Nothing
    /\ sent' = [code |-> "none"] /\ pkt' = [code |-> "none"] /\ got' = Nothing

Init == sent = [code |-> "none"] /\ pkt = [code |-> "none"] /\ got = Nothing

Next == SendEntries \/ SendOther \/ Unpack \/ Done

Spec == Init /\ [][Next]_vars

-----------------------------------------------------------------------------
(* Correctness *)

(* Packets have bytes, and a size that fits the payload. *)
TypeOK ==
    pkt.code # "none" =>
        /\ pkt.code \in Code /\ pkt.payload_n \in 0 .. MAX_PAYLOAD
        /\ pkt.payload \in [1 .. MAX_PAYLOAD -> Byte]

(* The handler gets the message that was sent, of any kind and with any     *)
(* values, the -1 of an empty log and as many entries as broadcast_         *)
(* append_entries picks included, whatever was on the sender's stack.       *)
RoundTrip ==
    got # Nothing =>
        got.rc = 0 /\ pkt.code = sent.code /\ got.m = sent.m /\ got.entries = sent.entries

(* Unpacking reads only bytes that were packed, although the size it asks   *)
(* for is less than it reads in the case of a client's answer.              *)
ReadsPacked == got.rc = 0 => got.read <= pkt.payload_n
=============================================================================
