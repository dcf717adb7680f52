------------------------------ MODULE FaxFetch ------------------------------
(***************************************************************************)
(* Fetching faxes from mail accounts: FaxFetchWorker, FaxSource#retrieve!  *)
(* and Admin::FaxSourcesController#retrieve.                               *)
(*                                                                         *)
(* A pass is one run of retrieve! over one source.  A job (one run of      *)
(* FaxFetchWorker) makes a pass over every source whose lock_flag was 0    *)
(* when it loaded the table; an agent's request makes one pass and does    *)
(* not look at lock_flag.  Messages are numbered by their position in the  *)
(* inbox, as IMAP does.                                                    *)
(***************************************************************************)
EXTENDS Naturals, Sequences, FiniteSets

CONSTANTS
    Jobs,          \* runs of FaxFetchWorker (enqueued from outside the code)
    Agents,        \* requests to /admin/fax_sources/retrieve
    Sources,       \* rows of fax_sources
    FirstScanned,  \* last_scanned_id of a source that was never scanned (500)
    MaxMessages,   \* bound: messages delivered to a source
    OnlyOne,       \* Rails.env is development or test: a pass ends after a fax
    MaxFailures    \* bound: steps that raise and processes that die

ASSUME JobsAssumption == Jobs \cap Agents = {}
ASSUME FirstScannedAssumption == FirstScanned \in Nat
ASSUME OnlyOneAssumption == OnlyOne \in BOOLEAN

VARIABLES
    lock_flag,        \* fax_sources.lock_flag
    last_scanned_id,  \* fax_sources.last_scanned_id
    inbox,            \* mail server: what each message is
    flagged,          \* mail server: the messages marked FLAGGED
    faxes,            \* faxes: the rows ever saved, with the process that saved them
    pc, src, copy, left, todo, last,  \* local to each job or request
    overlap,          \* observer: sources on which two passes overlapped
    failed            \* observer: who raised or died, at which step and source

table  == <<lock_flag, last_scanned_id>>
mail   == <<inbox, flagged>>
local  == <<src, copy, left, todo, last>>
vars   == <<table, mail, faxes, pc, local, overlap, failed>>

Procs == Jobs \cup Agents
Kinds == {"fax", "other"}  \* "other": no fax number or no attachment

Saved(s, m) == \E p \in Procs : [source |-> s, message |-> m, by |-> p] \in faxes
InPass(p, s) == pc[p] \in {"scan", "flag"} /\ src[p] = s
Inside  == {"connect", "scan", "flag", "finish", "unlock"}
Running == Inside \cup {"next"}

NoCopy == [s \in Sources |-> [lock_flag |-> 0, last_scanned_id |-> 0]]

Init ==
    /\ lock_flag       = [s \in Sources |-> 0]
    /\ last_scanned_id = [s \in Sources |-> FirstScanned]
    /\ inbox   = [s \in Sources |-> <<>>]
    /\ flagged = [s \in Sources |-> {}]
    /\ faxes   = {}
    /\ pc   = [p \in Procs |-> "idle"]
    /\ src \in [Procs -> Sources]
    /\ copy = [p \in Procs |-> NoCopy]
    /\ left = [p \in Procs |-> {}]
    /\ todo = [p \in Procs |-> {}]
    /\ last = [p \in Procs |-> 0]
    /\ overlap = {}
    /\ failed  = {}

-----------------------------------------------------------------------------
(* External: mail arrives. *)

Deliver(s) ==
    /\ Len(inbox[s]) < MaxMessages
    /\ \E kind \in Kinds : inbox' = [inbox EXCEPT ![s] = Append(@, kind)]
    /\ UNCHANGED <<table, flagged, faxes, pc, local, overlap, failed>>

-----------------------------------------------------------------------------
(* FaxFetchWorker#perform *)

Load(p) ==
    copy' = [copy EXCEPT ![p] = [s \in Sources |->
                [lock_flag       |-> lock_flag[s],
                 last_scanned_id |-> last_scanned_id[s]]]]

\* A process that ends takes its variables with it.
End(p, how) ==
    /\ pc'   = [pc EXCEPT ![p] = how]
    /\ copy' = [copy EXCEPT ![p] = NoCopy]
    /\ left' = [left EXCEPT ![p] = {}]
    /\ todo' = [todo EXCEPT ![p] = {}]
    /\ last' = [last EXCEPT ![p] = 0]
    /\ UNCHANGED src

\* Mutant: the worker's rescue tries the same source again.
LeaveRetries(p) ==
    \/ /\ p \in Jobs
       /\ pc'   = [pc EXCEPT ![p] = "next"]
       /\ todo' = [todo EXCEPT ![p] = {}]
       /\ last' = [last EXCEPT ![p] = 0]
       /\ UNCHANGED <<src, copy, left>>
    \/ p \in Agents /\ End(p, "done")

\* A pass over src[p] is over: a job goes on, a request answers.
Leave(p) ==
    \/ /\ p \in Jobs
       /\ left' = [left EXCEPT ![p] = @ \ {src[p]}]
       /\ pc'   = [pc EXCEPT ![p] = "next"]
       /\ todo' = [todo EXCEPT ![p] = {}]
       /\ last' = [last EXCEPT ![p] = 0]
       /\ UNCHANGED <<src, copy>>
    \/ p \in Agents /\ End(p, "done")

\* FaxSource.all: every row is read here, long before most are looked at.
perform(p) ==
    /\ pc[p] = "idle"
    /\ Load(p)
    /\ left' = [left EXCEPT ![p] = Sources]
    /\ pc'   = [pc EXCEPT ![p] = "next"]
    /\ UNCHANGED <<table, mail, faxes, src, todo, last, overlap, failed>>

\* The flag that is tested is the one that was read; the save writes 1 over
\* whatever the row holds by now.
Seize(p) ==
    /\ pc[p] = "next"
    /\ \E s \in left[p] :
          /\ copy[p][s].lock_flag = 0
          /\ lock_flag' = [lock_flag EXCEPT ![s] = 1]
          /\ src' = [src EXCEPT ![p] = s]
    /\ pc' = [pc EXCEPT ![p] = "connect"]
    /\ UNCHANGED <<last_scanned_id, mail, faxes, copy, left, todo, last, overlap, failed>>

Skip(p) ==
    /\ pc[p] = "next"
    /\ \E s \in left[p] :
          /\ copy[p][s].lock_flag # 0
          /\ left' = [left EXCEPT ![p] = @ \ {s}]
    /\ UNCHANGED <<table, mail, faxes, pc, src, copy, todo, last, overlap, failed>>

PerformDone(p) ==
    /\ pc[p] = "next"
    /\ left[p] = {}
    /\ End(p, "done")
    /\ UNCHANGED <<table, mail, faxes, overlap, failed>>

\* Mutants: the flag is counted down instead of cleared; it is cleared in
\* memory and not saved.
UnlockDecrements(p) ==
    /\ pc[p] = "unlock"
    /\ lock_flag' = [lock_flag EXCEPT ![src[p]] = IF p \in Jobs THEN @ - 1 ELSE @]
    /\ Leave(p)
    /\ UNCHANGED <<last_scanned_id, mail, faxes, overlap, failed>>

UnlockUnsaved(p) ==
    /\ pc[p] = "unlock"
    /\ Leave(p)
    /\ UNCHANGED <<table, mail, faxes, overlap, failed>>

\* After retrieve! a job clears the flag and goes on; a request answers.
Unlock(p) ==
    /\ pc[p] = "unlock"
    /\ lock_flag' = [lock_flag EXCEPT ![src[p]] = IF p \in Jobs THEN 0 ELSE @]
    /\ Leave(p)
    /\ UNCHANGED <<last_scanned_id, mail, faxes, overlap, failed>>

\* Admin::FaxSourcesController#retrieve
retrieve(p) ==
    /\ pc[p] = "idle"
    /\ Load(p)
    /\ \E s \in Sources : src' = [src EXCEPT ![p] = s]
    /\ pc' = [pc EXCEPT ![p] = "connect"]
    /\ UNCHANGED <<table, mail, faxes, left, todo, last, overlap, failed>>

-----------------------------------------------------------------------------
(* FaxSource#retrieve! *)

\* Connect, log in, select and search; a failed login returns to the caller.
Connect(p) ==
    /\ pc[p] = "connect"
    /\ \/ /\ todo' = [todo EXCEPT ![p] = (1 .. Len(inbox[src[p]])) \ flagged[src[p]]]
          /\ last' = [last EXCEPT ![p] = 0]
          /\ pc'   = [pc EXCEPT ![p] = "scan"]
          /\ overlap' = IF \E o \in Procs : InPass(o, src[p])
                        THEN overlap \cup {src[p]} ELSE overlap
       \/ /\ pc' = [pc EXCEPT ![p] = "unlock"]
          /\ UNCHANGED <<todo, last, overlap>>
    /\ UNCHANGED <<table, mail, faxes, src, copy, left, failed>>

IsNext(p, m) == m \in todo[p] /\ \A n \in todo[p] : m <= n

\* Mutant: the message last_scanned_id stands for is skipped too.
ScanSkipsEqual(p) ==
    /\ pc[p] = "scan"
    /\ \E m \in todo[p] :
          /\ IsNext(p, m)
          /\ m <= copy[p][src[p]].last_scanned_id
          /\ todo' = [todo EXCEPT ![p] = @ \ {m}]
    /\ UNCHANGED <<table, mail, faxes, pc, src, copy, left, last, overlap, failed>>

ScanSkips(p) ==
    /\ pc[p] = "scan"
    /\ \E m \in todo[p] :
          /\ IsNext(p, m)
          /\ m < copy[p][src[p]].last_scanned_id
          /\ todo' = [todo EXCEPT ![p] = @ \ {m}]
    /\ UNCHANGED <<table, mail, faxes, pc, src, copy, left, last, overlap, failed>>

\* No fax number or no attachment: the message stays unflagged.
ScanOther(p) ==
    /\ pc[p] = "scan"
    /\ \E m \in todo[p] :
          /\ IsNext(p, m)
          /\ m >= copy[p][src[p]].last_scanned_id
          /\ inbox[src[p]][m] = "other"
          /\ todo' = [todo EXCEPT ![p] = @ \ {m}]
          /\ last' = [last EXCEPT ![p] = m]
    /\ UNCHANGED <<table, mail, faxes, pc, src, copy, left, overlap, failed>>

\* Mutant: a message without fax number or attachment is saved too.
ScanFaxAny(p) ==
    /\ pc[p] = "scan"
    /\ \E m \in todo[p] :
          /\ IsNext(p, m)
          /\ m >= copy[p][src[p]].last_scanned_id
          /\ faxes' = faxes \cup {[source |-> src[p], message |-> m, by |-> p]}
          /\ last' = [last EXCEPT ![p] = m]
    /\ pc' = [pc EXCEPT ![p] = "flag"]
    /\ UNCHANGED <<table, mail, src, copy, left, todo, overlap, failed>>

\* fax.save; the file, the object id, the uploads and the images follow, and
\* any of them may raise before the message is flagged.
ScanFax(p) ==
    /\ pc[p] = "scan"
    /\ \E m \in todo[p] :
          /\ IsNext(p, m)
          /\ m >= copy[p][src[p]].last_scanned_id
          /\ inbox[src[p]][m] = "fax"
          /\ faxes' = faxes \cup {[source |-> src[p], message |-> m, by |-> p]}
          /\ last' = [last EXCEPT ![p] = m]
    /\ pc' = [pc EXCEPT ![p] = "flag"]
    /\ UNCHANGED <<table, mail, src, copy, left, todo, overlap, failed>>

\* Mutant: the fax is saved and the message is not flagged.
FlagMissing(p) ==
    /\ pc[p] = "flag"
    /\ todo' = [todo EXCEPT ![p] = @ \ {last[p]}]
    /\ pc' = [pc EXCEPT ![p] = IF OnlyOne THEN "finish" ELSE "scan"]
    /\ UNCHANGED <<table, mail, faxes, src, copy, left, last, overlap, failed>>

Flag(p) ==
    /\ pc[p] = "flag"
    /\ flagged' = [flagged EXCEPT ![src[p]] = @ \cup {last[p]}]
    /\ todo' = [todo EXCEPT ![p] = @ \ {last[p]}]
    /\ pc' = [pc EXCEPT ![p] = IF OnlyOne THEN "finish" ELSE "scan"]
    /\ UNCHANGED <<table, inbox, faxes, src, copy, left, last, overlap, failed>>

ScanDone(p) ==
    /\ pc[p] = "scan"
    /\ todo[p] = {}
    /\ pc' = [pc EXCEPT ![p] = "finish"]
    /\ UNCHANGED <<table, mail, faxes, local, overlap, failed>>

\* Compared with the value that was read, written over the value that is there.
Finish(p) ==
    /\ pc[p] = "finish"
    /\ last_scanned_id' = [last_scanned_id EXCEPT ![src[p]] =
                              IF last[p] > copy[p][src[p]].last_scanned_id
                              THEN last[p] ELSE @]
    /\ pc' = [pc EXCEPT ![p] = "unlock"]
    /\ UNCHANGED <<lock_flag, mail, faxes, local, overlap, failed>>

-----------------------------------------------------------------------------
(* Failures *)

Fails(p) ==
    /\ Cardinality(failed) < MaxFailures
    /\ failed' = failed \cup {[proc |-> p, at |-> pc[p], source |-> src[p]]}

\* retrieve! raises: the worker's empty rescue goes on to the next source,
\* a request answers with an error.
Raise(p) ==
    /\ pc[p] \in {"scan", "flag", "finish", "unlock"}
    /\ Fails(p)
    /\ Leave(p)
    /\ UNCHANGED <<table, mail, faxes, overlap>>

\* The process dies; the worker is not retried (:retry => false).
Die(p) ==
    /\ pc[p] \in Running
    /\ Fails(p)
    /\ End(p, "dead")
    /\ UNCHANGED <<table, mail, faxes, overlap>>

-----------------------------------------------------------------------------
Pass(p) ==
    \/ Connect(p) \/ ScanSkips(p) \/ ScanOther(p) \/ ScanFax(p) \/ Flag(p)
    \/ ScanDone(p) \/ Finish(p) \/ Unlock(p)

Step(p) == Seize(p) \/ Skip(p) \/ PerformDone(p) \/ Pass(p)

Quiescent ==
    /\ \A p \in Procs : pc[p] \in {"done", "dead"}
    /\ \A s \in Sources : Len(inbox[s]) = MaxMessages
    /\ UNCHANGED vars

Next ==
    \/ \E s \in Sources : Deliver(s)
    \/ \E p \in Jobs : perform(p)
    \/ \E p \in Agents : retrieve(p)
    \/ \E p \in Procs : Step(p) \/ Raise(p) \/ Die(p)
    \/ Quiescent

Spec == Init /\ [][Next]_vars

\* A job or request that was started is run on by its thread.
FairSpec == Spec /\ \A p \in Procs : WF_vars(Step(p))

-----------------------------------------------------------------------------
(* Properties *)

TypeOK ==
    /\ lock_flag \in [Sources -> {0, 1}]
    /\ last_scanned_id \in [Sources -> Nat]
    /\ inbox \in [Sources -> Seq(Kinds)]
    /\ flagged \in [Sources -> SUBSET Nat]
    /\ faxes \in SUBSET [source : Sources, message : Nat, by : Procs]
    /\ pc \in [Procs -> Running \cup {"idle", "done", "dead"}]
    /\ src \in [Procs -> Sources]
    /\ copy \in [Procs -> [Sources -> [lock_flag : {0, 1}, last_scanned_id : Nat]]]
    /\ left \in [Procs -> SUBSET Sources]
    /\ todo \in [Procs -> SUBSET Nat]
    /\ last \in [Procs -> Nat]
    /\ overlap \in SUBSET Sources
    /\ failed \in SUBSET [proc : Procs, at : Running, source : Sources]

\* No fax is lost: a fax message that no later pass will look at, because it
\* is flagged or lies below last_scanned_id, was saved.  This holds although
\* passes overlap, die anywhere and write last_scanned_id from stale copies.
NothingLost ==
    \A s \in Sources : \A m \in 1 .. Len(inbox[s]) :
        /\ inbox[s][m] = "fax"
        /\ m \in flagged[s] \/ (FirstScanned <= m /\ m < last_scanned_id[s])
        => Saved(s, m)

\* The sources a pass left between saving a fax and flagging its message, and
\* those a job has seized and left without unlocking.
Broken == {f.source : f \in {g \in failed : g.at = "flag"}}
Stuck == {f.source : f \in {g \in failed : g.proc \in Jobs /\ g.at \in Inside}}

\* A message is saved twice only where two passes overlapped or one stopped
\* between saving the fax and flagging the message.
SavedOnce ==
    \A f, g \in faxes :
        f.source = g.source /\ f.message = g.message /\ f.by # g.by
        => f.source \in overlap \cup Broken

\* The refinement mapping: what is saved is kept, and what no later pass will
\* look at is settled.
Kept == {<<f.source, f.message>> : f \in faxes}
Settled ==
    UNION {{s} \X {m \in 1 .. Len(inbox[s]) :
                m \in flagged[s] \/ (FirstScanned <= m /\ m < last_scanned_id[s])} :
           s \in Sources}
Mailbox == INSTANCE FaxMailbox WITH mailbox <- inbox, kept <- Kept, settled <- Settled

\* Jobs, requests, locks and stale copies come to no more than the mailbox of
\* FaxMailbox: every step keeps one fax, settles messages that are kept, or
\* changes nothing there.
ImplementsMailbox == Mailbox!MailboxSpec

\* A source that is locked has a job at work on it, or one that stopped there
\* without unlocking: no lock outlives the passes that could clear it, although
\* jobs seize on stale copies and clear each other's locks (perform).
LockHasHolder ==
    \A s \in Sources : lock_flag[s] = 1 =>
        s \in Stuck \/ \E p \in Jobs : pc[p] \in Inside /\ src[p] = s

\* How far a process is from the end: the sources left to it, then its place in
\* the pass, then the messages the pass has still to look at.
Phase(step) ==
    CASE step = "next"           -> 5
      [] step = "connect"        -> 4
      [] step \in {"scan", "flag"} -> 3
      [] step = "finish"         -> 2
      [] step = "unlock"         -> 1
      [] OTHER                   -> 0

Shrinks(new, old) == new \subseteq old /\ new # old

CloserToEnd(p) ==
    \/ Shrinks(left'[p], left[p])
    \/ /\ left'[p] = left[p]
       /\ \/ Phase(pc'[p]) < Phase(pc[p])
          \/ /\ Phase(pc'[p]) = Phase(pc[p])
             /\ \/ Shrinks(todo'[p], todo[p])
                \/ todo'[p] = todo[p] /\ pc[p] = "scan" /\ pc'[p] = "flag"

\* No job or request runs in a circle, whatever fails, arrives or is locked: a
\* step that moves it, also one that raises, brings it closer to its end, and
\* nothing others do takes it back (perform, retrieve!).
NoneRunsInCircles ==
    [][\A p \in Procs : pc[p] \in Running =>
          \/ pc'[p] = pc[p] /\ left'[p] = left[p] /\ todo'[p] = todo[p]
          \/ CloserToEnd(p)]_vars

\* A seized source can be seized again unless the job stopped in between, also
\* when two jobs have seized it: the second one to end clears what is left.
LockIsReleasedUnlessStuck ==
    \A s \in Sources : lock_flag[s] = 1 ~> lock_flag[s] = 0 \/ s \in Stuck

\* What the worker's comment promises: a seized source can be seized again.
LockIsReleased ==
    \A s \in Sources : lock_flag[s] = 1 ~> lock_flag[s] = 0
=============================================================================
