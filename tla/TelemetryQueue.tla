---------------------------- MODULE TelemetryQueue --------------------------
(* Usage records on their way from this machine's queue file to the team's  *)
(* collector: sida/telemetry.py, the switch in sida/settings.py and         *)
(* collector/app.py.                                                        *)
(*                                                                          *)
(* Recorders (jobs and lookups) append while they believe that sending is   *)
(* on, a designer switches it off and on, and one background thread sends   *)
(* batches.  The lock is held for each access to the file but not while a   *)
(* batch is on the network.  Answers get lost and the server restarts.      *)
EXTENDS Integers, Sequences, SequencesExt

CONSTANTS
    Recorders,     \* threads that make records
    MaxQueued,     \* MAX_QUEUED
    BatchSize,     \* BATCH_SIZE
    Bad,           \* records the collector refuses as malformed
    MaxRecords,    \* bound: records ever made
    MaxSwitches    \* bound: how often sending is switched on again

ASSUME ConstantsAssumption ==
    /\ MaxQueued \in Nat \ {0} /\ BatchSize \in Nat \ {0}
    /\ MaxRecords \in Nat /\ MaxSwitches \in Nat
    /\ Bad \subseteq 1..MaxRecords

VARIABLES
    on,        \* telemetry.enabled in config.local.yaml
    switch,    \* the settings request: "idle" or "clear" (saved, not yet cleared)
    switched,  \* how often sending was switched on again
    believes,  \* recorder -> telemetry was on when it last looked
    queue,     \* queue.jsonl: record numbers in the order they were made
    made,      \* how many records were made
    flusher,   \* "idle", "read", "post" or "drop"
    batch,     \* the batch on the network
    rows,      \* the collector's events table, in insertion order
    dropped    \* history: records dropped for a reason the code states

vars == <<on, switch, switched, believes, queue, made, flusher, batch, rows, dropped>>

Init ==
    /\ on = TRUE /\ switch = "idle" /\ switched = 0
    /\ believes = [r \in Recorders |-> FALSE]
    /\ queue = <<>> /\ made = 0
    /\ flusher = "idle" /\ batch = <<>>
    /\ rows = <<>> /\ dropped = {}
----------------------------------------------------------------------------
Newest(s, n) == SubSeq(s, Len(s) - n + 1, Len(s))
After(s, n)  == SubSeq(s, n + 1, Len(s))

(* Recording.                                                               *)

\* record() reads the configuration; a JobObserver reads it once for its job.
LookAtSettings(r) ==
    /\ believes' = [believes EXCEPT ![r] = on]
    /\ UNCHANGED <<on, switch, switched, queue, made, flusher, batch, rows, dropped>>

\* Mutant of AppendRecord: an offline machine's queue grows for ever.
AppendUntrimmed(r) ==
    /\ believes[r] /\ made < MaxRecords
    /\ made'  = made + 1
    /\ queue' = Append(queue, made + 1)
    /\ UNCHANGED <<on, switch, switched, believes, flusher, batch, rows, dropped>>

\* Beyond MAX_QUEUED the oldest records go.
AppendRecord(r) ==
    LET longer == Append(queue, made + 1)
        kept   == Newest(longer, IF Len(longer) > MaxQueued THEN MaxQueued ELSE Len(longer))
    IN  /\ believes[r] /\ made < MaxRecords
        /\ made'    = made + 1
        /\ queue'   = kept
        /\ dropped' = dropped \cup (ToSet(longer) \ ToSet(kept))
        /\ UNCHANGED <<on, switch, switched, believes, flusher, batch, rows>>

----------------------------------------------------------------------------
(* The switch: the setting is saved first, then the queue is cleared.       *)

SwitchOff ==
    /\ switch = "idle" /\ switched < MaxSwitches
    /\ on' = FALSE
    /\ switch' = "clear"
    /\ UNCHANGED <<switched, believes, queue, made, flusher, batch, rows, dropped>>

ClearQueue ==
    /\ switch = "clear"
    /\ queue'   = <<>>
    /\ dropped' = dropped \cup ToSet(queue)
    /\ switch'  = "idle"
    /\ UNCHANGED <<on, switched, believes, made, flusher, batch, rows>>

SwitchOn ==
    /\ switch = "idle" /\ ~on
    /\ on' = TRUE
    /\ switched' = switched + 1
    /\ UNCHANGED <<switch, believes, queue, made, flusher, batch, rows, dropped>>

----------------------------------------------------------------------------
(* Sending.                                                                 *)

\* flush looks at the settings once, whatever it then sends.
StartFlush ==
    /\ flusher = "idle" /\ on
    /\ flusher' = "read"
    /\ UNCHANGED <<on, switch, switched, believes, queue, made, batch, rows, dropped>>

ReadBatch ==
    /\ flusher = "read"
    /\ batch'   = SubSeq(queue, 1, IF Len(queue) < BatchSize THEN Len(queue) ELSE BatchSize)
    /\ flusher' = IF queue = <<>> THEN "idle" ELSE "post"
    /\ UNCHANGED <<on, switch, switched, believes, queue, made, rows, dropped>>

Malformed == ToSet(batch) \cap Bad # {}

\* Mutant of Stored: a resent record is inserted once more.
StoredAgain(records) == rows \o records

\* One insert after the other, ON CONFLICT (id) DO NOTHING.
Stored(records) ==
    LET inserted[n \in 0..Len(records)] ==
            IF n = 0 THEN rows
            ELSE IF records[n] \in ToSet(inserted[n - 1]) THEN inserted[n - 1]
            ELSE Append(inserted[n - 1], records[n])
    IN  inserted[Len(records)]

\* The collector stores the batch, and its answer arrives or does not.
PostAccepted(answered) ==
    /\ flusher = "post" /\ ~Malformed
    /\ rows'    = Stored(batch)
    /\ flusher' = IF answered THEN "drop" ELSE "idle"
    /\ UNCHANGED <<on, switch, switched, believes, queue, made, batch, dropped>>

\* Mutant of PostRefused: the refused batch is kept for the next try.
PostKept ==
    /\ flusher = "post" /\ Malformed
    /\ flusher' = "idle"
    /\ UNCHANGED <<on, switch, switched, believes, queue, made, batch, rows, dropped>>

\* 413 or 422: the batch is given up.
PostRefused ==
    /\ flusher = "post" /\ Malformed
    /\ dropped' = dropped \cup ToSet(batch)
    /\ flusher' = "drop"
    /\ UNCHANGED <<on, switch, switched, believes, queue, made, batch, rows>>

\* No network, 429 or a server error: kept for the next try.
PostFails ==
    /\ flusher = "post"
    /\ flusher' = "idle"
    /\ UNCHANGED <<on, switch, switched, believes, queue, made, batch, rows, dropped>>

\* Mutant of DropBatch: one record too many goes.
DropOneMore ==
    /\ flusher = "drop"
    /\ queue'   = After(queue, Len(batch) + 1)
    /\ flusher' = "read"
    /\ UNCHANGED <<on, switch, switched, believes, made, batch, rows, dropped>>

\* As many records as were sent go from the head, whatever is there by now.
DropBatch ==
    /\ flusher = "drop"
    /\ queue'   = After(queue, Len(batch))
    /\ flusher' = "read"
    /\ UNCHANGED <<on, switch, switched, believes, made, batch, rows, dropped>>

\* The web server stops between two steps and is started again.
Restart ==
    /\ believes' = [r \in Recorders |-> FALSE]
    /\ switch'   = "idle"
    /\ flusher'  = "idle"
    /\ UNCHANGED <<on, switched, queue, made, batch, rows, dropped>>

----------------------------------------------------------------------------
Flush ==
    \/ StartFlush \/ ReadBatch \/ PostRefused \/ PostFails \/ DropBatch
    \/ \E answered \in BOOLEAN : PostAccepted(answered)

Next ==
    \/ \E r \in Recorders : LookAtSettings(r) \/ AppendRecord(r)
    \/ SwitchOff \/ ClearQueue \/ SwitchOn
    \/ Flush \/ Restart

Spec == Init /\ [][Next]_vars

\* The background thread keeps trying, and neither the network nor the server
\* fails every time: a batch that is sent again and again is once answered.
FairSpec ==
    /\ Spec
    /\ WF_vars(StartFlush) /\ SF_vars(ReadBatch)
    /\ SF_vars(PostAccepted(TRUE)) /\ SF_vars(PostRefused) /\ SF_vars(DropBatch)

----------------------------------------------------------------------------
TypeOK ==
    /\ on \in BOOLEAN /\ switch \in {"idle", "clear"}
    /\ switched \in 0..MaxSwitches
    /\ believes \in [Recorders -> BOOLEAN]
    /\ queue \in Seq(1..made) /\ batch \in Seq(1..made) /\ rows \in Seq(1..made)
    /\ made \in 0..MaxRecords
    /\ flusher \in {"idle", "read", "post", "drop"}
    /\ dropped \subseteq 1..made

Increasing(s) == \A i, j \in 1..Len(s) : i < j => s[i] < s[j]

\* The collector has each record at most once and in the order they were made,
\* however often a batch whose answer was lost is sent again.
StoredInOrder == TypeOK /\ Increasing(rows)

\* However long the machine is offline and whatever was trimmed, cleared or
\* dropped meanwhile, what waits is the unbroken run of the newest records, the
\* oldest first, and no more than MAX_QUEUED of them: no record is missing
\* between two that wait or behind the last.
QueueIsNewest ==
    /\ Len(queue) <= MaxQueued
    /\ \A i \in 1..Len(queue) : queue[i] = made - Len(queue) + i

\* As long as the queue has had room for every record ever made and sending was
\* never switched off, every record is waiting, stored, or was dropped for a
\* stated reason (refused, too old): lost answers, refused batches and restarts
\* of the server lose nothing.
KeptWhileThereIsRoom ==
    made <= MaxQueued /\ on /\ switched = 0 =>
        \A i \in 1..made : i \in ToSet(queue) \cup ToSet(rows) \cup dropped

\* While sending stays on, every queued record leaves the queue: no refused
\* batch, lost answer or restart keeps the records behind it waiting for ever.
EveryRecordLeaves ==
    <>[]on => \A i \in 1..MaxRecords : i \in ToSet(queue) ~> i \notin ToSet(queue)
=============================================================================
