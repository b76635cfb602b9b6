----------------------------- MODULE DurableLog -----------------------------
(***************************************************************************)
(* The log on disk (src/persist-unix/log.c) under the merge loop of        *)
(* handle_append_entries_request, one system call at a time.               *)
(*                                                                         *)
(* Two files are kept: the entries, and in a second one their number.      *)
(* What the process reads back is file and meta.  What a power failure     *)
(* leaves is not determined until fsync: fileImages and metaImages are the *)
(* contents that may be found afterwards.                                  *)
(***************************************************************************)
EXTENDS Integers, Sequences, SequencesExt

CONSTANTS
    Entry,
    Torn,           \* what is read where an entry was written only in part, or never
    MaxLength,      \* bound: entries in the log
    MaxErrors       \* bound: system calls that fail

ASSUME EntryAssumption == Torn \notin Entry
ASSUME BoundAssumption == MaxLength \in Nat /\ MaxErrors \in Nat

VARIABLES
    file, fileImages,       \* raft_<id>.log
    meta, metaImages,       \* raft_<id>.log.meta
    length,                 \* lctx->length
    pc,                     \* the next system call
    keep, new, next,        \* the request: entries kept, entries received, log_idx
    base, acked,            \* history: log when the request came, log acknowledged last
    errors, killed          \* calls that failed; whether a kill came within a request

files == <<file, fileImages, meta, metaImages>>
request == <<keep, new, base>>
faults == <<errors, killed>>
vars == <<files, length, pc, request, next, acked, faults>>

Value == Entry \cup {Torn}

(* The entry read at position j of an image of the file; an entry put into  *)
(* the image, and its tail cut; and the log that an image and a length      *)
(* amount to.                                                               *)
At(img, j) == IF j <= Len(img) THEN img[j] ELSE Torn
Put(img, k, e) ==
    [j \in 1 .. (IF Len(img) > k THEN Len(img) ELSE k + 1) |->
        IF j = k + 1 THEN e ELSE At(img, j)]
Cut(img, k) == IF Len(img) > k THEN SubSeq(img, 1, k) ELSE img
LogOf(img, n) == [j \in 1 .. n |-> At(img, j)]

Visible == LogOf(file, length)
Outcomes == {LogOf(img, n) : img \in fileImages, n \in metaImages}

Fail == errors < MaxErrors /\ errors' = errors + 1 /\ UNCHANGED killed

-----------------------------------------------------------------------------
(* A request whose entries go at index k, the first at which the log does  *)
(* not hold them already.  If the log reaches that far its entry there     *)
(* conflicts, and the tail is removed first.  A request with no such entry *)
(* (a heartbeat) changes nothing but is acknowledged up to k all the same. *)
Receive(k, entries) ==
    LET conflict == entries # <<>> /\ k < length
    IN  /\ pc = "idle"
        /\ k <= length /\ k + Len(entries) <= MaxLength
        /\ conflict => entries[1] # Visible[k + 1]
        /\ keep' = k /\ new' = entries /\ next' = k
        /\ base' = Visible
        /\ acked' = IF conflict THEN Cut(acked, k) ELSE acked
        /\ pc' = IF conflict THEN "remove" ELSE "write"
        /\ UNCHANGED <<files, length, faults>>

(* f_log_remove_last_n: the length in memory, then on disk, then the file. *)
RemoveLength ==
    /\ pc = "remove"
    /\ length' = keep
    /\ \/ /\ meta' = keep /\ metaImages' = metaImages \cup {keep}
          /\ pc' = "remove_sync"
          /\ UNCHANGED faults
       \/ Fail /\ pc' = "write" /\ UNCHANGED <<meta, metaImages>>
    /\ UNCHANGED <<file, fileImages, request, next, acked>>
RemoveSync ==
    /\ pc = "remove_sync"
    /\ pc' = "truncate"
    /\ \/ metaImages' = {meta} /\ UNCHANGED faults
       \/ Fail /\ UNCHANGED metaImages
    /\ UNCHANGED <<file, fileImages, meta, length, request, next, acked>>
RemoveTail ==
    /\ pc = "truncate"
    /\ pc' = "write"
    /\ \/ /\ file' = Cut(file, length)
          /\ fileImages' = fileImages \cup {Cut(img, length) : img \in fileImages}
          /\ UNCHANGED faults
       \/ Fail /\ UNCHANGED <<file, fileImages>>
    /\ UNCHANGED <<meta, metaImages, length, request, next, acked>>

-----------------------------------------------------------------------------
(* f_log_write of the entry for index next; its result is not looked at. *)
Pending == pc = "write" /\ next < keep + Len(new)
Returned == next' = next + 1 /\ pc' = "write"

WriteOutOfBounds ==
    /\ Pending /\ next > length
    /\ Returned
    /\ UNCHANGED <<files, length, request, acked, faults>>

(* Mutant: the entry is counted before its write is known to have worked. *)
WriteCountsFirst ==
    LET e == new[next - keep + 1]
    IN  /\ Pending /\ next <= length
        /\ fileImages' = fileImages \cup {Put(img, next, x) : img \in fileImages, x \in {e, Torn}}
        /\ \/ /\ file' = Put(file, next, e) /\ pc' = "write_sync"
              /\ UNCHANGED <<next, length, faults>>
           \/ file' = Put(file, next, Torn) /\ Fail /\ Returned /\ length' = length + 1
        /\ UNCHANGED <<meta, metaImages, request, acked>>

WriteEntry ==
    LET e == new[next - keep + 1]
    IN  /\ Pending /\ next <= length
        /\ fileImages' = fileImages \cup {Put(img, next, x) : img \in fileImages, x \in {e, Torn}}
        /\ \/ file' = Put(file, next, e) /\ pc' = "write_sync" /\ UNCHANGED <<next, faults>>
           \/ file' = Put(file, next, Torn) /\ Fail /\ Returned
        /\ UNCHANGED <<meta, metaImages, length, request, acked>>

(* Mutant: the length is written before the entry is safe. *)
WriteNoSync ==
    /\ pc = "write_sync"
    /\ IF next = length THEN pc' = "count" /\ UNCHANGED next ELSE Returned
    /\ UNCHANGED <<files, length, request, acked, faults>>

WriteSync ==
    /\ pc = "write_sync"
    /\ \/ fileImages' = {file} /\ UNCHANGED faults
       \/ Fail /\ UNCHANGED fileImages
    /\ IF next = length THEN pc' = "count" /\ UNCHANGED next ELSE Returned
    /\ UNCHANGED <<file, meta, metaImages, length, request, acked>>

(* Mutant: the new length is one too large. *)
CountPastEnd ==
    /\ pc = "count"
    /\ length' = length + 2
    /\ \/ /\ meta' = length + 2 /\ metaImages' = metaImages \cup {length + 2}
          /\ pc' = "count_sync"
          /\ UNCHANGED <<next, faults>>
       \/ Fail /\ Returned /\ UNCHANGED <<meta, metaImages>>
    /\ UNCHANGED <<file, fileImages, request, acked>>

CountEntry ==
    /\ pc = "count"
    /\ length' = length + 1
    /\ \/ /\ meta' = length + 1 /\ metaImages' = metaImages \cup {length + 1}
          /\ pc' = "count_sync"
          /\ UNCHANGED <<next, faults>>
       \/ Fail /\ Returned /\ UNCHANGED <<meta, metaImages>>
    /\ UNCHANGED <<file, fileImages, request, acked>>

(* Mutant: the new length is not forced to disk. *)
CountNoSync ==
    /\ pc = "count_sync"
    /\ Returned
    /\ UNCHANGED <<files, length, request, acked, faults>>

CountSync ==
    /\ pc = "count_sync"
    /\ \/ metaImages' = {meta} /\ UNCHANGED faults
       \/ Fail /\ UNCHANGED metaImages
    /\ Returned
    /\ UNCHANGED <<file, fileImages, meta, length, request, acked>>

(* The loop is done: success is reported up to the end of the request. *)
Reply ==
    LET got == SubSeq(base, 1, keep) \o new
    IN  /\ pc = "write" /\ next = keep + Len(new)
        /\ acked' = IF IsPrefix(got, acked) THEN acked ELSE got
        /\ pc' = "idle"
        /\ keep' = 0 /\ new' = <<>> /\ next' = 0 /\ base' = <<>>
        /\ UNCHANGED <<files, length, faults>>

-----------------------------------------------------------------------------
(* log_init of the restarted process takes the length from the meta file. *)
log_init(n) ==
    /\ length' = n
    /\ pc' = "idle"
    /\ keep' = 0 /\ new' = <<>> /\ next' = 0 /\ base' = <<>>
    /\ UNCHANGED <<acked, errors>>

(* The program's own exits come between two requests, a signal may also   *)
(* come between two system calls.  The files stay as they are in the page  *)
(* cache, and log_init does not force them to disk.                        *)
ProcessExit == pc = "idle" /\ log_init(meta) /\ UNCHANGED <<files, killed>>
Killed == pc # "idle" /\ log_init(meta) /\ killed' = TRUE /\ UNCHANGED files
PowerFailure ==
    \E img \in fileImages, n \in metaImages :
        /\ file' = img /\ fileImages' = {img}
        /\ meta' = n /\ metaImages' = {n}
        /\ log_init(n)
        /\ UNCHANGED killed

Init ==
    /\ file = <<>> /\ fileImages = {<<>>}
    /\ meta = 0 /\ metaImages = {0}
    /\ length = 0
    /\ pc = "idle"
    /\ keep = 0 /\ new = <<>> /\ next = 0 /\ base = <<>>
    /\ acked = <<>>
    /\ errors = 0 /\ killed = FALSE

Next ==
    \/ \E k \in 0 .. MaxLength, n \in 0 .. 2 : \E entries \in [1 .. n -> Entry] :
          Receive(k, entries)
    \/ RemoveLength \/ RemoveSync \/ RemoveTail
    \/ WriteOutOfBounds \/ WriteEntry \/ WriteSync \/ CountEntry \/ CountSync
    \/ Reply
    \/ ProcessExit \/ Killed \/ PowerFailure

Spec == Init /\ [][Next]_vars

-----------------------------------------------------------------------------
(* Correctness *)

(* Every variable has its type, and the files are among what may be found. *)
TypeOK ==
    /\ file \in Seq(Value) /\ file \in fileImages
    /\ meta \in 0 .. MaxLength /\ meta \in metaImages
    /\ length \in 0 .. MaxLength
    /\ pc \in {"idle", "remove", "remove_sync", "truncate",
               "write", "write_sync", "count", "count_sync"}
    /\ keep \in 0 .. MaxLength /\ next \in keep .. keep + Len(new)
    /\ errors \in 0 .. MaxErrors /\ killed \in BOOLEAN

(* Even if system calls fail, their results being ignored, and the process *)
(* is killed between two of them, a request leaves the process reading the *)
(* kept part of the log and the first of the new entries: too few perhaps, *)
(* but never one that was not written.                                     *)
ReadsBack ==
    pc = "write" /\ new # <<>> => \E n \in 0 .. Len(new) :
        Visible = SubSeq(base, 1, keep) \o SubSeq(new, 1, n)

(* What the next two properties presuppose, since the code ignores the      *)
(* results of log.write and log_init trusts a length that was not forced to *)
(* disk: no call failed, and no process was killed within a request.        *)
Undisturbed == errors = 0 /\ ~ killed

(* Whatever a power failure leaves of the two files, and whenever it comes, *)
(* the log found afterwards is the old one, or its kept part followed by    *)
(* some of the new entries: never a torn, stale or skipped entry.  (These   *)
(* are the logs that Raft's TornAppend allows.)                             *)
CrashLeavesPrefix == Undisturbed =>
    \A found \in Outcomes :
        \/ pc = "idle" /\ found = Visible
        \/ pc # "idle" /\ found = base
        \/ pc # "idle" /\ new # <<>> /\ \E n \in 0 .. Len(new) :
              found = SubSeq(base, 1, keep) \o SubSeq(new, 1, n)

(* Stated by raft.h: persistent state is updated before the node responds. *)
(* What was acknowledged is found after a crash at any later moment, until *)
(* a newer leader replaces it.                                             *)
AckedIsDurable == Undisturbed => \A found \in Outcomes : IsPrefix(acked, found)
-----------------------------------------------------------------------------
(* The inductive invariant *)

Removing == pc \in {"remove", "remove_sync", "truncate"}
Writing == pc \in {"write_sync", "count", "count_sync"}

(* Where the merge loop is: what it has counted, and what it writes next. *)
Cursor ==
    /\ new \in Seq(Entry) /\ keep + Len(new) <= MaxLength
    /\ base \in Seq(Value) /\ (pc # "idle" => keep <= Len(base))
    /\ Removing => next = keep /\ new # <<>>
    /\ pc \in {"remove_sync", "truncate"} => length = keep
    /\ pc = "write" /\ new # <<>> => length \in keep .. next
    /\ pc \in {"write_sync", "count"} => length = next
    /\ pc = "count_sync" => length = next + 1
    /\ Writing => next < keep + Len(new)

(* Until the tail is removed the process reads the old log, and then its    *)
(* kept part and the first new entries; an entry about to be counted has    *)
(* been written.                                                            *)
Wanted(j) == IF j <= keep THEN base[j] ELSE new[j - keep]
Reads ==
    /\ pc = "remove" \/ (pc = "write" /\ new = <<>>) =>
          length = Len(base) /\ \A j \in 1 .. length : At(file, j) = base[j]
    /\ pc \notin {"idle", "remove"} /\ new # <<>> =>
          \A j \in 1 .. length : At(file, j) = Wanted(j)
    /\ pc \in {"write_sync", "count"} => At(file, next + 1) = Wanted(next + 1)

(* What a power failure may leave of the two files.  All images of the log  *)
(* agree as far as any length that may be found; only between the write of  *)
(* a length and its fsync are there two, and then both are good.            *)
Agree(n) == \A img \in fileImages : \A j \in 1 .. n : At(img, j) = At(file, j)
Images ==
    /\ fileImages \subseteq Seq(Value) /\ metaImages \subseteq 0 .. MaxLength
    /\ Undisturbed =>
          /\ meta = length
          /\ pc = "remove_sync" =>
                /\ metaImages \subseteq {Len(base), keep}
                /\ \A img \in fileImages : \A j \in 1 .. Len(base) : At(img, j) = base[j]
          /\ pc = "count_sync" => metaImages \subseteq {next, length}
          /\ pc \notin {"remove_sync", "count_sync"} => metaImages = {length}
          /\ Agree(IF pc = "count" THEN length + 1 ELSE length)
          /\ pc = "write" /\ new # <<>> => length = next

(* What was acknowledged is in the part of the log that every length that   *)
(* may be found covers; a request that removes or adds entries keeps it.    *)
Acked ==
    /\ acked \in Seq(Value)
    /\ Undisturbed =>
          /\ Len(acked) <= length
          /\ pc # "idle" /\ new # <<>> => Len(acked) <= keep
          /\ \A j \in 1 .. Len(acked) : acked[j] = At(file, j)

(* Everything the merge loop relies on between two system calls. *)
DurableInv == TypeOK /\ Cursor /\ Reads /\ Images /\ Acked
=============================================================================
