-------------------------- MODULE PersistentFields --------------------------
(***************************************************************************)
(* Current term and vote of one node (src/persist-unix/persistent-fields.c)*)
(* under the handlers of src/raft.c that write them, one system call at a  *)
(* time.  Both are words of one file; a handler sets one after the other   *)
(* and ignores the results.                                                *)
(*                                                                         *)
(* file is what the process reads.  images are the contents a power        *)
(* failure may leave: a write adds to them, an fsync leaves only file.  A  *)
(* word is assumed to be written whole, and a new file's name to be        *)
(* durable with its first fsync.                                           *)
(***************************************************************************)
EXTENDS Integers, Sequences, SequencesExt

CONSTANTS
    Peer,           \* the other nodes
    Self,           \* config.id
    NoVote,         \* PF_NO_VOTE_V
    Short,          \* a file of less than two words
    None,           \* no answer, no promise
    MaxTerm,        \* bound: terms
    MaxErrors       \* bound: system calls that fail

ASSUME PeerAssumption == Self \notin Peer /\ NoVote \notin Peer \cup {Self}
ASSUME ValueAssumption == {Short, None} \cap [term : Nat, vote : Peer \cup {Self, NoVote}] = {}
ASSUME BoundAssumption == MaxTerm \in Nat /\ MaxErrors \in Nat

VARIABLES
    file, images,
    pc,                 \* "open", "idle", or the next call of a handler
    todo,               \* the sets the handler has still to do
    answer,             \* what it sends when they are done
    candidate,          \* role = CANDIDATE
    base, steps,        \* history: the file when the handler began, all its sets
    promise, told,      \* history: last vote, and highest term, known to others
    errors, killed

disk == <<file, images>>
handler == <<todo, answer, base, steps>>
outside == <<promise, told>>
faults == <<errors, killed>>
vars == <<disk, pc, handler, candidate, outside, faults>>

Term == 0 .. MaxTerm
Vote == Peer \cup {Self, NoVote}
Fields == [term : Term, vote : Vote]

(* persistent_fields_init fills a short file. *)
Fresh == [term |-> 0, vote |-> NoVote]
Found(img) == IF img = Short THEN Fresh ELSE img

(* One pf_set: PF_CURRENT_TERM is word 0, PF_VOTED_FOR word 1. *)
SetTerm(t) == <<"term", t>>
SetVote(v) == <<"vote", v>>
Written(f, w) == [f EXCEPT ![w[1]] = w[2]]

Fail == errors < MaxErrors /\ errors' = errors + 1 /\ UNCHANGED killed

-----------------------------------------------------------------------------
(* Mutant: the size of the file is not looked at. *)
OpenAnySize ==
    /\ pc = "open" /\ pc' = "idle"
    /\ UNCHANGED <<disk, handler, candidate, outside, faults>>

(* persistent_fields_init.  If it cannot write, the process exits and is   *)
(* started again.                                                          *)
Open ==
    /\ pc = "open"
    /\ \/ file # Short /\ pc' = "idle" /\ UNCHANGED <<disk, faults>>
       \/ /\ file = Short
          /\ file' = Fresh /\ images' = images \cup {Fresh}
          /\ pc' = "fsync" /\ UNCHANGED faults
       \/ file = Short /\ Fail /\ UNCHANGED <<disk, pc>>
    /\ UNCHANGED <<handler, candidate, outside>>

-----------------------------------------------------------------------------
(* Handlers: each starts from what pf_get reads and leaves a list of sets. *)
Handle(sets, out) ==
    /\ todo' = sets /\ steps' = sets /\ base' = file
    /\ answer' = out
    /\ pc' = "write"
    /\ UNCHANGED <<disk, faults, told>>

(* Mutant: the vote is cleared before the term is raised. *)
VoteFirst(t) == <<SetVote(NoVote), SetTerm(t)>>

become_follower(t) == <<SetTerm(t), SetVote(NoVote)>>
start_election == <<SetTerm(file.term + 1), SetVote(Self)>>

(* A packet of a newer term; a ballot may be granted on top. *)
NewerTerm(t) ==
    /\ pc = "idle" /\ t > file.term
    /\ \/ Handle(become_follower(t), [term |-> t, vote |-> NoVote])
       \/ \E c \in Peer :
            Handle(become_follower(t) \o <<SetVote(c)>>, [term |-> t, vote |-> c])
    /\ candidate' = FALSE
    /\ UNCHANGED promise

(* A ballot of the present term, granted. *)
GrantVote(c) ==
    /\ pc = "idle" /\ file.vote \in {NoVote, c}
    /\ Handle(<<SetVote(c)>>, [term |-> file.term, vote |-> c])
    /\ UNCHANGED <<candidate, promise>>

Elect ==
    /\ pc = "idle" /\ file.term < MaxTerm
    /\ Handle(start_election, [term |-> file.term + 1, vote |-> Self])
    /\ candidate' = TRUE
    /\ UNCHANGED promise

(* A candidate that meets the leader of its term gives up its vote. *)
YieldToLeader ==
    /\ pc = "idle" /\ candidate
    /\ Handle(become_follower(file.term), [term |-> file.term, vote |-> NoVote])
    /\ candidate' = FALSE
    /\ promise' = None

(* Any other packet of the present term is answered without a set. *)
Acknowledge ==
    /\ pc = "idle"
    /\ Handle(<<>>, [term |-> file.term, vote |-> NoVote])
    /\ UNCHANGED <<candidate, promise>>

-----------------------------------------------------------------------------
(* pf_set: write, then fsync; after a failing write it returns. *)
Write ==
    /\ pc = "write" /\ todo # <<>>
    /\ todo' = Tail(todo)
    /\ \/ /\ file' = Written(file, Head(todo))
          /\ images' = images \cup {Written(Found(img), Head(todo)) : img \in images}
          /\ pc' = "fsync"
          /\ UNCHANGED faults
       \/ Fail /\ UNCHANGED <<disk, pc>>
    /\ UNCHANGED <<answer, base, steps, candidate, outside>>

(* Mutants: the write is left to the operating system; only the last set of *)
(* a handler is forced to disk.                                             *)
NoFsync ==
    /\ pc = "fsync"
    /\ pc' = IF answer = None THEN "idle" ELSE "write"
    /\ UNCHANGED <<disk, handler, candidate, outside, faults>>
FsyncLast ==
    /\ pc = "fsync"
    /\ images' = IF todo = <<>> THEN {file} ELSE images
    /\ pc' = IF answer = None THEN "idle" ELSE "write"
    /\ UNCHANGED <<file, handler, candidate, outside, faults>>

(* The result of fsync is not looked at. *)
Fsync ==
    /\ pc = "fsync"
    /\ \/ images' = {file} /\ UNCHANGED faults
       \/ Fail /\ UNCHANGED images
    /\ pc' = IF answer = None THEN "idle" ELSE "write"
    /\ UNCHANGED <<file, handler, candidate, outside>>

Idle ==
    /\ todo' = <<>> /\ steps' = <<>>
    /\ answer' = None /\ base' = None

(* The response, or the ballots, are sent. *)
Send ==
    /\ pc = "write" /\ todo = <<>>
    /\ promise' = IF answer.vote = NoVote THEN promise ELSE answer
    /\ told' = IF answer.term > told THEN answer.term ELSE told
    /\ Idle
    /\ pc' = "idle"
    /\ UNCHANGED <<disk, candidate, faults>>

-----------------------------------------------------------------------------
(* The process ends between two calls and its successor reads the page     *)
(* cache; or the machine fails and it reads one of the images.             *)
Restart == Idle /\ pc' = "open" /\ candidate' = FALSE /\ UNCHANGED <<outside, errors>>
Killed ==
    /\ Restart
    /\ killed' = (killed \/ pc # "idle")
    /\ UNCHANGED disk
PowerFailure ==
    /\ Restart
    /\ \E img \in images : file' = img /\ images' = {img}
    /\ UNCHANGED killed

Init ==
    /\ file = Short /\ images = {Short}
    /\ pc = "open"
    /\ todo = <<>> /\ steps = <<>> /\ answer = None /\ base = None
    /\ candidate = FALSE
    /\ promise = None /\ told = 0
    /\ errors = 0 /\ killed = FALSE

Next ==
    \/ Open \/ Write \/ Fsync \/ Send
    \/ (\E t \in Term : NewerTerm(t)) \/ (\E c \in Peer : GrantVote(c))
    \/ Elect \/ YieldToLeader \/ Acknowledge
    \/ Killed \/ PowerFailure

Spec == Init /\ [][Next]_vars

-----------------------------------------------------------------------------
(* Correctness *)

(* Every variable has its type, and the process reads what may be found. *)
TypeOK ==
    /\ images \subseteq Fields \cup {Short} /\ file \in images
    /\ pc \in {"open", "idle", "write", "fsync"}
    /\ pc \in {"idle", "write"} => file \in Fields
    /\ answer \in Fields \cup {None} /\ (pc = "write" => answer # None)
    /\ base \in Fields \cup {None}
    /\ promise \in [term : Term, vote : Peer \cup {Self}] \cup {None}
    /\ told \in Term /\ candidate \in BOOLEAN
    /\ errors \in 0 .. MaxErrors /\ killed \in BOOLEAN

(* The fields after some sets: the last set of each word counts. *)
Latest(f, sets, w) ==
    LET at == {k \in DOMAIN sets : sets[k][1] = w}
    IN  IF at = {} THEN f[w] ELSE sets[Max(at)][2]
After(f, sets) == [term |-> Latest(f, sets, "term"), vote |-> Latest(f, sets, "vote")]

(* Whatever a power failure leaves, and whenever it comes, the fields found *)
(* are the old ones with the first few sets of the handler done, never a    *)
(* later set without an earlier one.  (Raft's TornStepDown and TornElection *)
(* are these outcomes.)                                                     *)
WritesInOrder ==
    errors = 0 /\ ~ killed /\ base # None =>
        \A img \in images : \E n \in 0 .. Len(steps) :
            Found(img) = After(base, SubSeq(steps, 1, n))

(* A vote that was granted, or asked for as a candidate, is found after any *)
(* crash until the node is in a newer term or has met the leader of this    *)
(* one; even if a process was killed between the write and its fsync.       *)
VoteKept ==
    errors = 0 /\ promise # None =>
        \A img \in images :
            \/ Found(img).term > promise.term
            \/ Found(img) = promise

(* Stated by raft.h: persistent state is updated before the node responds.  *)
(* A term that others were told is found after any crash.  Without kills: a *)
(* restarted process answers with a term it may have read from the page     *)
(* cache only.                                                              *)
TermKept ==
    errors = 0 /\ ~ killed => \A img \in images : Found(img).term >= told

-----------------------------------------------------------------------------
(* The inductive invariant behind these properties *)

Set == ({"term"} \X Term) \cup ({"vote"} \X Vote)
Done == Len(steps) - Len(todo)

(* The sets that are left are the last ones of the handler's. *)
HandlerInv ==
    /\ todo \in Seq(Set) /\ steps \in Seq(Set)
    /\ Done \in 0 .. Len(steps) /\ todo = SubSeq(steps, Done + 1, Len(steps))
    /\ answer = None => base = None /\ steps = <<>>
    /\ answer # None => base # None /\ file # Short /\ pc \in {"write", "fsync"}
    /\ pc = "fsync" => file # Short /\ (answer # None => Done > 0)

(* What handlers set, from fields f on, before they answer with term t and  *)
(* vote v: a vote of the term that is free or given already, or a term that *)
(* is at least as new and then the vote.                                    *)
Known(f, t, v, sets) ==
    \/ sets = <<>> /\ v = NoVote /\ t = f.term
    \/ sets = <<SetVote(v)>> /\ v # NoVote /\ t = f.term /\ f.vote \in {NoVote, v}
    \/ sets = become_follower(t) /\ v = NoVote /\ t >= f.term
    \/ sets = become_follower(t) \o <<SetVote(v)>> /\ v # NoVote /\ t > f.term
    \/ sets = <<SetTerm(t), SetVote(v)>> /\ v # NoVote /\ t > f.term

(* The vote is given up within its term only when there is no promise. *)
HandlerKnown ==
    answer # None =>
        /\ Known(base, answer.term, answer.vote, steps)
        /\ errors = 0 /\ promise # None => promise.term <= base.term
        /\ promise # None => steps # become_follower(base.term)

(* The file is what the sets done so far have made of it, and only the last *)
(* of them, or what a killed process has left, is not durable.              *)
SetsDone == After(base, SubSeq(steps, 1, Done))
DiskInv ==
    errors = 0 =>
        /\ answer # None => file = SetsDone
        /\ pc = "write" /\ Done > 0 => images = {file}
        /\ ~ killed /\ pc # "fsync" => images = {file}
        /\ ~ killed /\ pc = "fsync" /\ answer # None =>
              images \subseteq {After(base, SubSeq(steps, 1, Done - 1)), file}

(* As long as the promise may be found, the process reads its vote. *)
VoteSeen ==
    errors = 0 /\ promise # None /\ promise \in images => file.vote = promise.vote

(* Between any two system calls the file is what the handler's sets so far  *)
(* make of it, at most one of them is not durable unless a process was      *)
(* killed, and a promise still to be found is the vote that pf_get reads.   *)
FieldsInv ==
    TypeOK /\ HandlerInv /\ HandlerKnown /\ DiskInv /\ VoteKept /\ VoteSeen /\ TermKept
=============================================================================
