------------------------------ MODULE ChatPoll ------------------------------
(***************************************************************************)
(* The polls of the open chat views (internal/server/chatcache.go and      *)
(* chatSnapshot): polls of one session share one fan-out of reads, the     *)
(* fan-outs of all sessions share one cached read of the active sessions,  *)
(* and the last transcript that could be read stands in for one that       *)
(* cannot. A key is a session with its newest page, or an older page.      *)
(*                                                                         *)
(* opencode's content is a number that grows. Time is not modelled: any    *)
(* read may fail, a budget may run out and what is kept may be too old at  *)
(* any moment.                                                             *)
(***************************************************************************)
EXTENDS Naturals

CONSTANTS
  Views,        \* the open chat views, each with one poll at a time
  Keys,         \* sessions and cursors
  Latest,       \* those of the newest pages
  MaxFlights,   \* flights under way at once
  MaxVersion    \* bound of the model

ASSUME PollAssumption ==
  Latest \subseteq Keys /\ Keys # {} /\ MaxFlights \in Nat /\ MaxVersion \in Nat \ {0}

VARIABLES
  version,      \* how far opencode is
  step, poll,   \* each view's step, and what it polls for
  flights,      \* the fan-outs under way
  flightOf,     \* snapshotFlight.calls: each key's flight, or 0
  inflight,     \* activeCache: the flight whose read all may join, or 0,
  cached,       \*   and whether it has an answer
  memo,         \* the keys of which some transcript is remembered
  \* history:
  shown,        \* the newest each key's polls have shown as fresh
  backwards     \* a poll has shown, as fresh, less than was shown before it began

pollVars == <<version, step, poll, flights, flightOf, inflight, cached, memo, shown, backwards>>

Flights == 1 .. MaxFlights
Versions == 1 .. MaxVersion
Results == {"ok", "err"}
(* A flight's reads: of the page; of the active sessions, where it joins   *)
(* another flight's read or makes one, whose result it puts into a channel *)
(* of capacity one.                                                        *)
Free == [state |-> "free", page |-> "begin", version |-> 0, active |-> "none",
         joined |-> 0, result |-> "none", buffered |-> FALSE]
Flight(k) ==
  [Free EXCEPT !.state = "reading", !.active = IF k \in Latest THEN "begin" ELSE "none"]
NoPoll == [key |-> CHOOSE k \in Keys : TRUE, flight |-> 0, floor |-> 1]

PollInit ==
  /\ version = 1
  /\ step = [p \in Views |-> "idle"] /\ poll = [p \in Views |-> NoPoll]
  /\ flights = [f \in Flights |-> Free] /\ flightOf = [k \in Keys |-> 0]
  /\ inflight = 0 /\ cached = FALSE /\ memo = {}
  /\ shown = [k \in Keys |-> 1] /\ backwards = FALSE

-----------------------------------------------------------------------------
Reach(p, label) == step' = [step EXCEPT ![p] = label]
Put(f, flight) == flights' = [flights EXCEPT ![f] = flight]
(* Nothing refers to a flight any more.                                    *)
Unused(f) ==
  /\ \A p \in Views : poll[p].flight # f
  /\ \A g \in Flights : flights[g].joined # f
  /\ \A k \in Keys : flightOf[k] # f
Released(p) == [f \in Flights |-> IF f = poll[p].flight /\ (\A q \in Views \ {p} : poll[q].flight # f)
                                     /\ (\A g \in Flights : flights[g].joined # f)
                                  THEN Free ELSE flights[f]]
NextFree == {f \in Flights : Unused(f)}
UpstreamOnly == UNCHANGED <<version, step, poll, flightOf, memo, shown, backwards>>

(* chatSnapshot, snapshotFlight.do: join the key's flight or start one.    *)
Asked(k, f) == [key |-> k, flight |-> f, floor |-> shown[k]]
Join(p, k) ==
  /\ flightOf[k] # 0 /\ Reach(p, "wait")
  /\ poll' = [poll EXCEPT ![p] = Asked(k, flightOf[k])]
  /\ UNCHANGED <<flights, flightOf>>
(* A mutant: the key is looked up and taken under two holds of the lock.   *)
LeadAnyhow(p, k) ==
  /\ Reach(p, "lead")
  /\ \E f \in NextFree :
       /\ \A g \in NextFree : f <= g
       /\ Put(f, Flight(k)) /\ flightOf' = [flightOf EXCEPT ![k] = f]
       /\ poll' = [poll EXCEPT ![p] = Asked(k, f)]
Lead(p, k) ==
  /\ flightOf[k] = 0 /\ Reach(p, "lead")
  /\ \E f \in NextFree :
       /\ \A g \in NextFree : f <= g
       /\ Put(f, Flight(k)) /\ flightOf' = [flightOf EXCEPT ![k] = f]
       /\ poll' = [poll EXCEPT ![p] = Asked(k, f)]
Poll(p) == \E k \in Keys :
  /\ step[p] = "idle" /\ (Join(p, k) \/ Lead(p, k))
  /\ UNCHANGED <<version, inflight, cached, memo, shown, backwards>>

-----------------------------------------------------------------------------
(* The reads of a flight, each in a goroutine of its own, all within one   *)
(* budget. Permissions and forms only matter when the poll is answered.    *)

ReadPage(f) ==
  /\ flights[f].state = "reading" /\ flights[f].page = "begin"
  /\ \/ Put(f, [flights[f] EXCEPT !.page = "ok", !.version = version])
     \/ Put(f, [flights[f] EXCEPT !.page = "err"])
  /\ UNCHANGED <<inflight, cached>> /\ UpstreamOnly

(* activeCache.get: the cached answer, if it is younger than its TTL; else *)
(* the read under way, or a read.                                          *)
GetActive(f) ==
  /\ flights[f].active = "begin"
  /\ \/ cached /\ Put(f, [flights[f] EXCEPT !.active = "ok"]) /\ UNCHANGED inflight
     \/ /\ inflight # 0 /\ UNCHANGED inflight
        /\ Put(f, [flights[f] EXCEPT !.active = "joined", !.joined = inflight])
     \/ /\ inflight = 0 /\ inflight' = f
        /\ Put(f, [flights[f] EXCEPT !.active = "reading"])
  /\ UNCHANGED <<cached>> /\ UpstreamOnly

(* On a budget of its own: the flight's does not end this read.            *)
ActiveReturns(f) ==
  /\ flights[f].active = "reading"
  /\ \E r \in Results : Put(f, [flights[f] EXCEPT !.active = "sending", !.result = r, !.buffered = TRUE])
  /\ UNCHANGED <<inflight, cached>> /\ UpstreamOnly
(* The channel goes with the last who waits at it.                         *)
Joiners(f) == {g \in Flights : flights[g].joined = f}
ActiveSettles(f) ==
  /\ flights[f].active = "sending"
  /\ inflight' = 0 /\ cached' = (cached \/ flights[f].result = "ok")
  /\ LET done == [flights[f] EXCEPT !.active = flights[f].result]
     IN Put(f, IF Joiners(f) = {} THEN [done EXCEPT !.result = "none", !.buffered = FALSE] ELSE done)
  /\ UpstreamOnly
Receive(f) == LET g == flights[f].joined IN
  /\ flights[f].active = "joined" /\ flights[g].buffered
  /\ flights' = [flights EXCEPT ![f].active = flights[g].result, ![f].joined = 0, ![g].buffered = FALSE]
  /\ UNCHANGED <<inflight, cached>> /\ UpstreamOnly
(* The flight's budget ends the wait, whatever has become of the read.     *)
GiveUp(f) ==
  /\ flights[f].active = "joined"
  /\ Put(f, [flights[f] EXCEPT !.active = "err", !.joined = 0])
  /\ UNCHANGED <<inflight, cached>> /\ UpstreamOnly

(* A mutant: a failed read returns before close(done).                     *)
CloseIfRead(f) ==
  /\ flights[f].state = "reading" /\ flights[f].page = "ok"
  /\ flights[f].active \in Results \cup {"none"}
  /\ Put(f, [flights[f] EXCEPT !.state = "closed"])
  /\ UNCHANGED <<inflight, cached>> /\ UpstreamOnly
(* close(done), and only then the key is free for another flight.          *)
Close(f) ==
  /\ flights[f].state = "reading" /\ flights[f].page \in Results
  /\ flights[f].active \in Results \cup {"none"}
  /\ Put(f, [flights[f] EXCEPT !.state = "closed"])
  /\ UNCHANGED <<inflight, cached>> /\ UpstreamOnly
Forget(p) == LET f == poll[p].flight IN
  /\ step[p] = "lead" /\ flights[f].state = "closed" /\ Reach(p, "answer")
  /\ flightOf' = [flightOf EXCEPT ![poll[p].key] = 0]
  /\ UNCHANGED <<version, poll, flights, inflight, cached, memo, shown, backwards>>

-----------------------------------------------------------------------------
(* A newest page that cannot be read is answered from the memo, if that is *)
(* young enough, and marked; so is an answer whose other reads failed.     *)
Memos(k, flight) == IF flight.page = "err" /\ k \in memo THEN BOOLEAN ELSE {FALSE}
(* A mutant: what is remembered is shown unmarked.                         *)
MarksOthers(k, flight, fromMemo) ==
  IF k \notin Latest THEN {FALSE} ELSE IF flight.active = "err" THEN {TRUE} ELSE BOOLEAN
Marks(k, flight, fromMemo) ==
  IF k \notin Latest THEN {FALSE}
  ELSE IF fromMemo \/ flight.active = "err" THEN {TRUE} ELSE BOOLEAN
AnswerPoll(p) ==
  LET k == poll[p].key
      flight == flights[poll[p].flight]
  IN /\ \/ step[p] = "answer"
        \/ step[p] = "wait" /\ flight.state = "closed"
     /\ Reach(p, "idle") /\ poll' = [poll EXCEPT ![p] = NoPoll] /\ flights' = Released(p)
     /\ memo' = IF flight.page = "ok" /\ k \in Latest THEN memo \cup {k} ELSE memo
     /\ \E fromMemo \in Memos(k, flight) : \E degraded \in Marks(k, flight, fromMemo) :
       \E page \in (IF fromMemo THEN 1 .. version ELSE {flight.version}) :
          LET fresh == page # 0 /\ ~degraded
          IN /\ backwards' = (backwards \/ (fresh /\ page < poll[p].floor))
             /\ shown' = IF fresh /\ page > shown[k] THEN [shown EXCEPT ![k] = page] ELSE shown
     /\ UNCHANGED <<version, flightOf, inflight, cached>>

(* A waiter whose client has gone gets nothing.                            *)
Leave(p) ==
  /\ step[p] = "wait" /\ Reach(p, "idle")
  /\ poll' = [poll EXCEPT ![p] = NoPoll] /\ flights' = Released(p)
  /\ UNCHANGED <<version, flightOf, inflight, cached, memo, shown, backwards>>

(* opencode goes on.                                                       *)
Upstream ==
  /\ version < MaxVersion /\ version' = version + 1
  /\ UNCHANGED <<step, poll, flights, flightOf, inflight, cached, memo, shown, backwards>>

-----------------------------------------------------------------------------
Reads(f) ==
  \/ ReadPage(f) \/ GetActive(f) \/ ActiveReturns(f) \/ ActiveSettles(f)
  \/ Receive(f) \/ GiveUp(f) \/ Close(f)
Responds(p) == Forget(p) \/ AnswerPoll(p)
PollNext ==
  \/ \E p \in Views : Poll(p) \/ Responds(p) \/ Leave(p)
  \/ \E f \in Flights : Reads(f)
  \/ Upstream
PollSpec == PollInit /\ [][PollNext]_pollVars

(* Goroutines run, and every read ends: the client's deadline and the      *)
(* budgets see to it.                                                      *)
FairPollSpec ==
  /\ PollSpec
  /\ \A p \in Views : WF_pollVars(Responds(p))
  /\ \A f \in Flights : WF_pollVars(Reads(f))

-----------------------------------------------------------------------------
PollTypeOK ==
  /\ version \in Versions
  /\ step \in [Views -> {"idle", "lead", "wait", "answer"}]
  /\ poll \in [Views -> [key : Keys, flight : Flights \cup {0}, floor : Versions]]
  /\ flights \in [Flights ->
       [state : {"free", "reading", "closed"}, page : Results \cup {"begin"}, version : Versions \cup {0},
        active : Results \cup {"begin", "joined", "reading", "sending", "none"},
        joined : Flights \cup {0}, result : Results \cup {"none"}, buffered : BOOLEAN]]
  /\ flightOf \in [Keys -> Flights \cup {0}] /\ inflight \in Flights \cup {0} /\ cached \in BOOLEAN
  /\ memo \subseteq Latest /\ shown \in [Keys -> Versions]
  /\ backwards \in BOOLEAN

(* chatcache.go, "N open views of one session cost one transcript fetch,   *)
(* not N", and one read of the active sessions for all of them: two        *)
(* flights of a key, or two such reads, are never under way at once.       *)
Polling(p) == step[p] \in {"lead", "wait"}
OneFetch ==
  /\ \A p, q \in Views : Polling(p) /\ Polling(q) /\ poll[p].key = poll[q].key
       /\ poll[p].flight # poll[q].flight
       => "closed" \in {flights[poll[p].flight].state, flights[poll[q].flight].state}
  /\ \A f, g \in Flights : flights[f].active = "reading" /\ flights[g].active = "reading" => f = g

(* A poll whose answer is not marked degraded shows a page no older than   *)
(* any poll of its session had shown, unmarked, before it began: shared    *)
(* flights and remembered transcripts never take the view back unnoticed.  *)
NeverBackwards == ~backwards

(* Who joined a flight is not left waiting: the flight ends, for whatever  *)
(* its reads share with other flights is bounded by its own budget.        *)
WaitersAreReleased == \A p \in Views : step[p] = "wait" ~> step[p] # "wait"
=============================================================================
