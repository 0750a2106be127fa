---------------------------- MODULE FileMutations ----------------------------
(***************************************************************************)
(* Tools that change files (packages/coding-agent/src/core/tools:          *)
(* file-mutation-queue.ts, write.ts, edit.ts).                             *)
(*                                                                         *)
(* The agent executes the tool calls of an answer in parallel.  Calls that *)
(* name the same file are chained: each waits until the one before it has  *)
(* settled, then runs its function of awaited file operations.  An abort   *)
(* settles every call of the batch that runs, whatever operation it is in. *)
(*                                                                         *)
(* Abstractions.  A file is the set of the changes that went into it: a    *)
(* write leaves only itself, an edit adds itself to what it read; whether  *)
(* its old text occurs there is a free choice.  Writing is truncating and  *)
(* filling, as writeFile does it.                                          *)
(***************************************************************************)
EXTENDS Naturals, FiniteSets

CONSTANTS
    MutationCalls,  \* write and edit calls
    Tool,           \* call -> "write" or "edit"
    PathOf,         \* call -> the absolute path it names
    RealPath,       \* path -> the path behind its symbolic links, when there is a file
    BatchOf         \* call -> the answer that asks for it; answers come one after the other

MutatedPaths   == {PathOf[c] : c \in MutationCalls}
RealFiles == {RealPath[p] : p \in MutatedPaths}
Batches  == {BatchOf[c] : c \in MutationCalls}
NoCall   == "no call"
Missing  == {"missing"}     \* there is no such file
Original == {"original"}    \* its content at the start
Truncated == {}
Mixed    == {"mixed"}       \* the bytes of two writes

ASSUME MutationAssumption ==
    /\ Tool \in [MutationCalls -> {"write", "edit"}]
    /\ BatchOf \in [MutationCalls -> Nat]
    /\ MutatedPaths \subseteq DOMAIN RealPath
    /\ {NoCall, "missing", "original", "mixed"} \cap MutationCalls = {}

VARIABLES
    files,      \* file -> content
    queueTail,  \* fileMutationQueues: key -> the last call chained under it
    queueKey,   \* call -> the key it was chained under
    behind,     \* call -> the call whose end it awaits (currentQueue)
    step,       \* call -> the await its function is at; "over" when it wrote its content,
                \*   "torn" when that failed half way, "quit" when it ended before
    seen,       \* call -> what an edit has read
    outcome,    \* call -> how its promise settled
    aborted,    \* the batches whose signal was aborted
    after,      \* history: call -> the calls on its file that had succeeded when it began
    disturbed   \* history: files a call began to change while one that an abort had settled,
                \*   or one chained under another key, was still changing them

mutationVars == <<files, queueTail, queueKey, behind, step, seen, outcome, aborted, after,
                  disturbed>>

Keys    == MutatedPaths \cup RealFiles
FileOf(c) == RealPath[PathOf[c]]
Inside  == {"mkdir", "access", "read", "open", "fill"}
AtWork(c) == step[c] \in Inside          \* a file operation of c is under way
Settled(c) == outcome[c] # "none"
Running(c) == AtWork(c) /\ ~Settled(c)
Waiting(c) == step[c] # "idle" /\ ~Settled(c)     \* its caller waits

MutationTypeOK ==
    /\ files \in [RealFiles -> SUBSET (MutationCalls \cup Missing \cup Original \cup Mixed)]
    /\ queueTail \in [Keys -> MutationCalls \cup {NoCall}]
    /\ queueKey \in [MutationCalls -> Keys]
    /\ behind \in [MutationCalls -> MutationCalls \cup {NoCall}]
    /\ step \in [MutationCalls -> Inside \cup {"idle", "queued", "over", "torn", "quit"}]
    /\ seen \in [MutationCalls -> SUBSET (MutationCalls \cup Original \cup Mixed)]
    /\ outcome \in [MutationCalls -> {"none", "ok", "error", "aborted"}]
    /\ aborted \subseteq Batches
    /\ after \in [MutationCalls -> SUBSET MutationCalls]
    /\ disturbed \subseteq RealFiles

MutationInit ==
    /\ files \in [RealFiles -> {Missing, Original}]
    /\ queueTail = [k \in Keys |-> NoCall]
    /\ queueKey = [c \in MutationCalls |-> PathOf[c]]
    /\ behind = [c \in MutationCalls |-> NoCall]
    /\ step = [c \in MutationCalls |-> "idle"]
    /\ seen = [c \in MutationCalls |-> {}]
    /\ outcome = [c \in MutationCalls |-> "none"]
    /\ aborted = {}
    /\ after = [c \in MutationCalls |-> {}]
    /\ disturbed = {}

-----------------------------------------------------------------------------
(* getMutationQueueKey: a file that does not exist has no real path yet. *)
KeyOf(c) == IF files[FileOf(c)] = Missing THEN PathOf[c] ELSE FileOf(c)

(* Mutant of TailsAfter: the entry is deleted whoever was chained behind. *)
ForgetsTail(C) ==
    [k \in Keys |-> IF \E c \in C : queueKey[c] = k THEN NoCall ELSE queueTail[k]]

(* The tail after the function of the calls in C has settled, all at once: *)
(* its entry is deleted when nobody was chained behind it.                 *)
TailsAfter(C) ==
    [k \in Keys |-> IF queueTail[k] \in C THEN NoCall ELSE queueTail[k]]

(* withFileMutationQueue up to its await; calls of an answer start when    *)
(* those of the answers before it have settled.                            *)
ChainCall(c) ==
    LET k == KeyOf(c) IN
    /\ step[c] = "idle"
    /\ \A d \in MutationCalls : BatchOf[d] < BatchOf[c] => Settled(d)
    /\ queueKey' = [queueKey EXCEPT ![c] = k]
    /\ behind' = [behind EXCEPT ![c] = queueTail[k]]
    /\ queueTail' = [queueTail EXCEPT ![k] = c]
    /\ step' = [step EXCEPT ![c] = "queued"]
    /\ UNCHANGED <<files, seen, outcome, aborted, after, disturbed>>

MyTurn(c) == step[c] = "queued" /\ (behind[c] # NoCall => Settled(behind[c]))

(* fn: the function of the tool begins, or finds the signal aborted. *)
BeginCall(c) ==
    /\ MyTurn(c)
    /\ IF BatchOf[c] \in aborted
         THEN /\ step' = [step EXCEPT ![c] = "quit"]
              /\ outcome' = [outcome EXCEPT ![c] = "aborted"]
              /\ queueTail' = TailsAfter({c})
         ELSE /\ step' = [step EXCEPT ![c] = IF Tool[c] = "write" THEN "mkdir" ELSE "access"]
              /\ UNCHANGED <<outcome, queueTail>>
    /\ after' = [after EXCEPT ![c] =
                    {d \in MutationCalls : FileOf(d) = FileOf(c) /\ outcome[d] = "ok"}]
    /\ disturbed' = IF \E d \in MutationCalls :
                          /\ AtWork(d) /\ FileOf(d) = FileOf(c)
                          /\ Settled(d) \/ queueKey[d] # queueKey[c]
                       THEN disturbed \cup {FileOf(c)} ELSE disturbed
    /\ UNCHANGED <<files, queueKey, behind, seen, aborted>>

(* Mutant of SettleCall: an error is caught and not passed on. *)
ErrorsCaught(c, how) ==
    IF Settled(c) \/ how = "error" THEN UNCHANGED <<outcome, queueTail>>
    ELSE /\ outcome' = [outcome EXCEPT ![c] = how]
         /\ queueTail' = TailsAfter({c})

(* resolve or reject, which does nothing once an abort has rejected. *)
SettleCall(c, how) ==
    IF Settled(c) THEN UNCHANGED <<outcome, queueTail>>
    ELSE /\ outcome' = [outcome EXCEPT ![c] = how]
         /\ queueTail' = TailsAfter({c})

(* A step to the next operation, unless the call was aborted meanwhile. *)
GoOn(c, next) ==
    /\ step' = [step EXCEPT ![c] = IF Settled(c) THEN "quit" ELSE next]
    /\ UNCHANGED <<outcome, queueTail>>

MkdirDone(c) ==
    /\ step[c] = "mkdir"
    /\ GoOn(c, "open")
    /\ UNCHANGED <<files, queueKey, behind, seen, aborted, after, disturbed>>

AccessDone(c) ==
    /\ step[c] = "access"
    /\ IF files[FileOf(c)] = Missing
         THEN SettleCall(c, "error") /\ step' = [step EXCEPT ![c] = "quit"]
         ELSE GoOn(c, "read")
    /\ UNCHANGED <<files, queueKey, behind, seen, aborted, after, disturbed>>

(* The file is read and the edits are applied to its text: they fail when  *)
(* their old text is not there, as in a file just truncated.               *)
ReadDone(c) ==
    /\ step[c] = "read"
    /\ \/ /\ files[FileOf(c)] # Truncated
          /\ GoOn(c, "open")
          /\ seen' = [seen EXCEPT ![c] = files[FileOf(c)]]
       \/ /\ SettleCall(c, "error")
          /\ step' = [step EXCEPT ![c] = "quit"]
          /\ UNCHANGED seen
    /\ UNCHANGED <<files, queueKey, behind, aborted, after, disturbed>>

(* writeFile opens the file and truncates it. *)
TruncateFile(c) ==
    /\ step[c] = "open"
    /\ files' = [files EXCEPT ![FileOf(c)] = Truncated]
    /\ step' = [step EXCEPT ![c] = "fill"]
    /\ UNCHANGED <<queueTail, queueKey, behind, seen, outcome, aborted, after, disturbed>>

Changed(c) == IF Tool[c] = "write" THEN {c} ELSE seen[c] \cup {c}

(* Its content is written; bytes another call wrote since it was truncated *)
(* are overwritten as far as the new ones reach.  An aborted call writes   *)
(* to the end as well.                                                     *)
FillFile(c) ==
    /\ step[c] = "fill"
    /\ \E content \in {Changed(c)} \cup (IF files[FileOf(c)] = Truncated THEN {} ELSE {Mixed}) :
          files' = [files EXCEPT ![FileOf(c)] = content]
    /\ SettleCall(c, "ok")
    /\ step' = [step EXCEPT ![c] = "over"]
    /\ UNCHANGED <<queueKey, behind, seen, aborted, after, disturbed>>

(* The file cannot be opened, or the disk is full. *)
WriteFileFails(c) ==
    /\ step[c] \in {"open", "fill"}
    /\ SettleCall(c, "error")
    /\ step' = [step EXCEPT ![c] = IF @ = "open" THEN "quit" ELSE "torn"]
    /\ UNCHANGED <<files, queueKey, behind, seen, aborted, after, disturbed>>

(* The calls of batch b that an abort settles at once. *)
Interrupted(b) == {c \in MutationCalls : BatchOf[c] = b /\ Running(c)}

(* The signal of the run: onAbort rejects while operations are under way. *)
AbortBatch(b) ==
    LET C == Interrupted(b) IN
    /\ b \notin aborted
    /\ \E c \in MutationCalls : BatchOf[c] = b /\ Waiting(c)
    /\ aborted' = aborted \cup {b}
    /\ outcome' = [c \in MutationCalls |-> IF c \in C THEN "aborted" ELSE outcome[c]]
    /\ queueTail' = TailsAfter(C)
    /\ UNCHANGED <<files, queueKey, behind, step, seen, after, disturbed>>

Operate(c) == \/ BeginCall(c) \/ MkdirDone(c) \/ AccessDone(c) \/ ReadDone(c)
              \/ TruncateFile(c) \/ FillFile(c)

Operations == \E c \in MutationCalls : Operate(c)

MutationNext ==
    \/ Operations
    \/ \E c \in MutationCalls : ChainCall(c) \/ WriteFileFails(c)
    \/ \E b \in Batches : AbortBatch(b)

(* File operations that were started end, and the awaits behind them go on. *)
MutationSpec == MutationInit /\ [][MutationNext]_mutationVars /\ WF_mutationVars(Operations)

-----------------------------------------------------------------------------
(* What a call has reported as done stays done: its change is in the file, *)
(* or a write that began later has replaced it.  It may be lost only       *)
(* through a write that failed half way, or where a call that an abort had *)
(* settled, or one chained under another key, was still changing the file. *)
EditsKept ==
    \A c \in MutationCalls : outcome[c] = "ok" /\ FileOf(c) \notin disturbed =>
        \/ c \in files[FileOf(c)]
        \/ \E d \in MutationCalls \ {c} :
              /\ FileOf(d) = FileOf(c)
              /\ \/ Tool[d] = "write" /\ c \in after[d] /\ step[d] = "over"
                 \/ step[d] \in {"fill", "torn"}

(* Every call that was made returns, whatever becomes of the others. *)
CallsReturn == (\E c \in MutationCalls : Waiting(c)) ~> (\A c \in MutationCalls : ~Waiting(c))

(* "Serialize file mutation operations targeting the same file": while one *)
(* call is writing a file, no other has an operation on it under way.      *)
Serialized ==
    \A c, d \in MutationCalls :
        c # d /\ FileOf(c) = FileOf(d) /\ step[c] \in {"open", "fill"} => ~AtWork(d)
=============================================================================
