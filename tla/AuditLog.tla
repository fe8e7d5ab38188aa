------------------------------ MODULE AuditLog ------------------------------
(***************************************************************************)
(* LocalAuditLog (infrastructure/audit.py), the log under the state        *)
(* directory of the user that the coordinators of every route append to.   *)
(* append reads and verifies the event files, reads HEAD, writes the file  *)
(* of the next number and then HEAD; nothing locks the directory, and each *)
(* process of the program is a writer of its own.                          *)
(*                                                                         *)
(* An event is [id, prev]: id stands for its hash and prev for the hash of *)
(* the event before it, 0 at the start of the chain.  A file is replaced   *)
(* as a whole (_atomic_write), and a failing write may have happened.      *)
(***************************************************************************)
EXTENDS Naturals, Sequences

CONSTANTS Writers,    \* processes that have the log open
          MayFail,    \* whether a write can fail or a process die
          MaxEvents   \* bound: appends that reach their write

ASSUME AuditBoundsAssumption == MayFail \in BOOLEAN /\ MaxEvents \in Nat

VARIABLES pc,      \* the step of append each writer is at
          seen,    \* the chain each writer has verified
          mine,    \* the event each writer is adding
          events,  \* the numbered event files
          head,    \* HEAD: [n, id], or NoHead
          made,    \* number of events made so far
          acked    \* history: events whose append returned

vars == <<pc, seen, mine, events, head, made, acked>>

NoHead == [n |-> 0, id |-> 0]
NoEvent == [id |-> 0, prev |-> 0]
LastId(chain) == IF chain = <<>> THEN 0 ELSE chain[Len(chain)].id

Init == /\ pc = [w \in Writers |-> "idle"]
        /\ seen = [w \in Writers |-> <<>>] /\ mine = [w \in Writers |-> NoEvent]
        /\ events = <<>> /\ head = NoHead /\ made = 0 /\ acked = {}

Goto(w, label) == pc' = [pc EXCEPT ![w] = label]

\* append returns, raises or dies with its process: its locals are gone.
Leave(w) == /\ Goto(w, "idle")
            /\ seen' = [seen EXCEPT ![w] = <<>>] /\ mine' = [mine EXCEPT ![w] = NoEvent]

\* The hash chain of read_all.
Valid(chain) == \A k \in 1..Len(chain) :
                    chain[k].prev = (IF k = 1 THEN 0 ELSE chain[k-1].id)

\* append calls read_all: first the event files...
ReadEvents(w) ==
    /\ pc[w] = "idle" /\ made < MaxEvents
    /\ Valid(events)
    /\ seen' = [seen EXCEPT ![w] = events]
    /\ Goto(w, "read_head")
    /\ UNCHANGED <<mine, events, head, made, acked>>

\* ...then HEAD, which must name the last of them.
\* (mutant: HEAD is not compared)
AnyHead(chain) == TRUE
HeadMatches(chain) == head = [n |-> Len(chain), id |-> LastId(chain)]

ReadHead(w) ==
    /\ pc[w] = "read_head" /\ made < MaxEvents
    /\ \/ /\ HeadMatches(seen[w])
          /\ made' = made + 1
          /\ mine' = [mine EXCEPT ![w] = [id |-> made + 1, prev |-> LastId(seen[w])]]
          /\ Goto(w, "write_event")
          /\ UNCHANGED seen
       \/ ~HeadMatches(seen[w]) /\ Leave(w) /\ UNCHANGED made
    /\ UNCHANGED <<events, head, acked>>

\* Whatever file of that number is there is replaced.
\* (mutant: the number of the last event)
SequenceOffByOne(w) == IF seen[w] = <<>> THEN 1 ELSE Len(seen[w])
Sequence(w) == Len(seen[w]) + 1

EventWritten(w) ==
    events' = IF Sequence(w) <= Len(events)
              THEN [events EXCEPT ![Sequence(w)] = mine[w]]
              ELSE Append(events, mine[w])

WriteEvent(w) ==
    /\ pc[w] = "write_event"
    /\ \/ EventWritten(w) /\ Goto(w, "write_head") /\ UNCHANGED <<seen, mine>>
       \/ MayFail /\ (EventWritten(w) \/ UNCHANGED events) /\ Leave(w)
    /\ UNCHANGED <<head, made, acked>>

WriteHead(w) ==
    LET new == [n |-> Sequence(w), id |-> mine[w].id]
    IN  /\ pc[w] = "write_head"
        /\ \/ head' = new /\ acked' = acked \union {mine[w].id}
           \/ MayFail /\ head' \in {head, new} /\ UNCHANGED acked
        /\ Leave(w)
        /\ UNCHANGED <<events, made>>

\* The process dies; the next one starts with nothing read.
Crash(w) == /\ MayFail /\ pc[w] # "idle"
            /\ Leave(w)
            /\ UNCHANGED <<events, head, made, acked>>

Next == \E w \in Writers : ReadEvents(w) \/ ReadHead(w) \/ WriteEvent(w) \/ WriteHead(w)
                           \/ Crash(w)

Spec == Init /\ [][Next]_vars

----------------------------------------------------------------------------

\* Every variable has its type.
TypeOK ==
    /\ pc \in [Writers -> {"idle", "read_head", "write_event", "write_head"}]
    /\ made \in 0..MaxEvents /\ acked \subseteq 1..made
    /\ \A w \in Writers : mine[w].id \in 0..made /\ mine[w].prev \in 0..made
    /\ events \in Seq([id : 1..made, prev : 0..made])
    /\ head.n \in 0..Len(events) /\ head.id \in 0..made

\* What read_all would return now, or refuse.
Verifies == Valid(events) /\ HeadMatches(events)

\* A log that verifies holds every event whose append returned (audit.py:35,
\* "Append-only ... events protected by a persisted hash chain"): read_all
\* never passes a log that has lost one.
VerifiedIsComplete ==
    Verifies => acked \subseteq {events[k].id : k \in 1..Len(events)}

\* An event file, once written, is never replaced (audit.py:35, "Append-only").
AppendOnly == [][\A k \in 1..Len(events) : events'[k] = events[k]]_vars

\* A write that failed between the file and HEAD leaves one event HEAD does
\* not name, never more: that stops every later append, so the gap a person
\* has to look at does not grow.
HeadLagsByOne == /\ Valid(events)
                 /\ head.n \in {Len(events), Len(events) - 1}
                 /\ head.n > 0 => head.id = events[head.n].id
=============================================================================
