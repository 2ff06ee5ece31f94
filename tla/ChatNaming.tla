----------------------------- MODULE ChatNaming -----------------------------
(***************************************************************************)
(* A chat's title and its promotion to a change: the entry of one chat in  *)
(* sessions.json, the session's title in opencode, and those who write     *)
(* either (internal/server/chatnames.go, chats.go, chatpromotion.go,       *)
(* sessionRename, scaffoldChange). Renaming, promoting, scaffolding and    *)
(* the last part of the naming hold sessionOps; the claim of a naming, the *)
(* chat list and opencode's own client do not.                             *)
(*                                                                         *)
(* A title stands for who made it up. What a scaffold does beside titling  *)
(* is in modules SessionMapping and WorktreePipeline.                      *)
(***************************************************************************)
EXTENDS Naturals, FiniteSets

CONSTANTS
  Clients,     \* goroutines serving requests
  None,
  MaxCalls, MaxFaults, MaxRestarts, MaxRevision   \* bounds of the model

ASSUME NamingAssumption ==
  /\ Clients \cap {None, "namer", "codebase chat", "fallback", "generated", "terminal", "change"} = {}
  /\ None # "namer"
  /\ MaxCalls \in Nat /\ MaxFaults \in Nat /\ MaxRestarts \in Nat /\ MaxRevision \in Nat \ {0}

VARIABLES
  live,       \* the title in opencode
  revision,   \* Time.Updated in opencode: its turns are what moves it
  running,    \* the session is in a turn, pending: input waits for one
  waiting,
  entry,      \* the chat's entry: memory and disk agree (module SessionMapping)
  holder,     \* who holds sessionOps
  scaffolded, \* the chat scaffolded a change, in memory
  pc, call,   \* the step each client takes next, and its request
  namer, job, \* the same for the goroutine that names the chat
  calls, faults, restarts,
  \* history:
  chosen,     \* a user or a scaffold gave the session its title
  diverged,   \* a call failed, or opencode's client renamed, past what is made good,
              \* and no title has been set in both places since
  dropped,    \* a naming was lost: a restart, or a save that failed
  sent,       \* sent[n]: the promotions the service took for revision n
  unsure,     \* the revisions whose promotion got an error for an answer or a stop
  acked       \* those answered with ok because they were recorded

opencode == <<live, revision, running, waiting>>
bounds == <<calls, faults, restarts>>
history == <<chosen, diverged, dropped, sent, unsure, acked>>
vars == <<opencode, entry, holder, scaffolded, pc, call, namer, job, bounds, history>>

Revisions == 1 .. MaxRevision
States == {"", "eligible", "pending", "auto", "manual", "change"}
Titles == Clients \cup {"codebase chat", "fallback", "generated", "terminal", "change"}
Entries == [owner : {"unassigned", "change"}, state : States, title : Titles, promotion : Revisions \cup {0}]
NoCall == [revision |-> 0, title |-> None]
NoJob == [original |-> None, title |-> None, expired |-> FALSE]
Labels == {"idle", "claim", "rename", "save", "confirm", "busy", "record", "send", "unrecord",
           "create", "retitle", "move", "refresh"}
Namer == "namer"

(* chatSession; an entry without a state is one of an earlier release.     *)
Init ==
  /\ live = "codebase chat" /\ revision = 1 /\ running = FALSE /\ waiting = FALSE
  /\ entry \in [owner : {"unassigned"}, state : {"", "eligible"}, title : {"codebase chat"}, promotion : {0}]
  /\ holder = None /\ scaffolded = FALSE
  /\ pc = [c \in Clients |-> "idle"] /\ call = [c \in Clients |-> NoCall]
  /\ namer = "idle" /\ job = NoJob
  /\ calls = 0 /\ faults = 0 /\ restarts = 0
  /\ chosen = FALSE /\ diverged = FALSE /\ dropped = FALSE
  /\ sent = [n \in Revisions |-> 0] /\ unsure = {} /\ acked = {}

-----------------------------------------------------------------------------
At(c, label) == pc[c] = label
Goto(c, label) == pc' = [pc EXCEPT ![c] = label] /\ UNCHANGED call
With(c, label, request) == pc' = [pc EXCEPT ![c] = label] /\ call' = [call EXCEPT ![c] = request]
Fault == faults < MaxFaults /\ faults' = faults + 1
Begin(c, label, request) ==
  /\ At(c, "idle") /\ calls < MaxCalls /\ calls' = calls + 1
  /\ With(c, label, request) /\ UNCHANGED <<faults, restarts>>
Naming == UNCHANGED <<namer, job>>
Quiet == UNCHANGED <<calls, restarts>>

(* sessionOps, held to the end of the request.                             *)
BeginLocked(c, label, request) == holder = None /\ holder' = c /\ Begin(c, label, request)
Answer(c) == With(c, "idle", NoCall) /\ holder' = IF holder = c THEN None ELSE holder

-----------------------------------------------------------------------------
(* Input, and the naming it starts.                                        *)

(* chatPrompt, sessionDeliver: the input is admitted first.                *)
Input(c) ==
  /\ Begin(c, "claim", NoCall) /\ waiting' = TRUE
  /\ UNCHANGED <<live, revision, running, entry, holder, scaffolded, history>> /\ Naming

Claimed(e) == e.owner = "unassigned" /\ e.state = "eligible"
Claim(c) ==
  /\ At(c, "claim") /\ Answer(c)
  /\ IF Claimed(entry)
     THEN /\ entry' = [entry EXCEPT !.state = "pending", !.title = "fallback"]
          /\ namer' = "generate"
          /\ job' = [original |-> entry.title, title |-> "fallback", expired |-> FALSE]
     ELSE UNCHANGED entry /\ Naming
  /\ UNCHANGED <<opencode, scaffolded, faults, history>> /\ Quiet
ClaimFails(c) ==
  /\ At(c, "claim") /\ Fault /\ Answer(c)
  /\ UNCHANGED <<opencode, entry, scaffolded, history>> /\ Naming /\ Quiet

NamerGoto(label) == namer' = label /\ UNCHANGED job
NamerDone == namer' = "idle" /\ job' = NoJob /\ holder' = None
NamerOnly == UNCHANGED <<opencode, scaffolded, pc, call, faults>> /\ Quiet

(* A title, or none, or the end of the fifteen seconds: every later call   *)
(* to opencode then fails, and only those.                                 *)
Generate ==
  /\ namer = "generate" /\ namer' = "lock"
  /\ job' \in {job, [job EXCEPT !.title = "generated"], [job EXCEPT !.expired = TRUE]}
  /\ UNCHANGED <<entry, holder, history>> /\ NamerOnly
NamerLock ==
  /\ namer = "lock" /\ holder = None /\ holder' = Namer /\ NamerGoto("check")
  /\ UNCHANGED <<entry, history>> /\ NamerOnly
StillPending(e) == e.owner = "unassigned" /\ e.state = "pending"
NamerCheck ==
  /\ namer = "check"
  /\ IF StillPending(entry) THEN NamerGoto("look") /\ UNCHANGED holder ELSE NamerDone
  /\ UNCHANGED <<entry, history>> /\ NamerOnly

(* Mutant: the title is not compared with the original. *)
LookAway ==
  /\ namer = "look" /\ ~job.expired /\ NamerGoto("apply")
  /\ UNCHANGED <<entry, holder, history>> /\ NamerOnly

(* The title somebody chose meanwhile is taken over.                       *)
Look ==
  /\ namer = "look" /\ ~job.expired
  /\ IF live # job.original
     THEN entry' = [entry EXCEPT !.title = live, !.state = "manual"] /\ NamerDone
     ELSE NamerGoto("apply") /\ UNCHANGED <<entry, holder>>
  /\ UNCHANGED history /\ NamerOnly
LookSaveFails ==
  /\ namer = "look" /\ ~job.expired /\ live # job.original /\ Fault /\ NamerDone
  /\ dropped' = TRUE
  /\ UNCHANGED <<opencode, entry, scaffolded, pc, call, chosen, diverged, sent, unsure, acked>> /\ Quiet
LookFails ==
  /\ namer = "look" /\ NamerGoto("apply")
  /\ IF job.expired THEN UNCHANGED faults ELSE Fault
  /\ diverged' = TRUE
  /\ UNCHANGED <<opencode, entry, holder, scaffolded, pc, call, chosen, dropped, sent, unsure, acked>> /\ Quiet
Apply ==
  /\ namer = "apply" /\ ~job.expired /\ live' = job.title /\ NamerGoto("record")
  /\ UNCHANGED <<revision, running, waiting, entry, holder, scaffolded, pc, call, faults, history>> /\ Quiet
(* No capability to rename, a failure, or no time: the local title stays,  *)
(* whether opencode took the other one or not.                             *)
ApplyFails ==
  /\ namer = "apply" /\ NamerGoto("record")
  /\ IF job.expired THEN UNCHANGED faults ELSE Fault
  /\ live' \in {live, job.title} /\ diverged' = TRUE
  /\ UNCHANGED <<revision, running, waiting, entry, holder, scaffolded, pc, call, chosen, dropped, sent, unsure, acked>> /\ Quiet
Record ==
  /\ namer = "record" /\ NamerDone
  /\ entry' = IF StillPending(entry) THEN [entry EXCEPT !.title = job.title, !.state = "auto"] ELSE entry
  /\ UNCHANGED history /\ NamerOnly
RecordFails ==
  /\ namer = "record" /\ Fault /\ NamerDone /\ dropped' = TRUE
  /\ UNCHANGED <<opencode, entry, scaffolded, pc, call, chosen, diverged, sent, unsure, acked>> /\ Quiet

-----------------------------------------------------------------------------
(* Renaming.                                                               *)

(* A title nobody owns yet follows opencode's when it is named.            *)
MadeGood == entry.state \in {"", "eligible", "pending"}

(* Mutant: without sessionOps. *)
RenameUnlocked(c) ==
  /\ Begin(c, "rename", [NoCall EXCEPT !.title = c]) /\ UNCHANGED holder
  /\ UNCHANGED <<opencode, entry, scaffolded, history>> /\ Naming

Rename(c) ==
  /\ BeginLocked(c, "rename", [NoCall EXCEPT !.title = c])
  /\ UNCHANGED <<opencode, entry, scaffolded, history>> /\ Naming
RenameSession(c) ==
  /\ At(c, "rename") /\ Goto(c, "save") /\ live' = call[c].title /\ chosen' = TRUE
  /\ UNCHANGED <<revision, running, waiting, entry, holder, scaffolded, faults,
                 diverged, dropped, sent, unsure, acked>> /\ Naming /\ Quiet
(* Mutant: the error leaves the lock held. *)
RenameFailsLocked(c) ==
  /\ At(c, "rename") /\ Fault /\ With(c, "idle", NoCall)
  /\ UNCHANGED <<opencode, entry, holder, scaffolded, history>> /\ Naming /\ Quiet

(* An error: opencode refused the title, or took it and its answer was     *)
(* lost. Nothing is stored of either.                                      *)
RenameFails(c) ==
  /\ At(c, "rename") /\ Fault /\ Answer(c)
  /\ \/ UNCHANGED <<live, chosen, diverged>>
     \/ live' = call[c].title /\ chosen' = TRUE /\ diverged' = (diverged \/ ~MadeGood)
  /\ UNCHANGED <<revision, running, waiting, entry, scaffolded, dropped, sent, unsure, acked>> /\ Naming /\ Quiet

(* The title is now in both places, unless opencode's own client has been  *)
(* at it again.                                                            *)
UpdateTitle(c) ==
  /\ At(c, "save") /\ Answer(c)
  /\ entry' = [entry EXCEPT !.title = call[c].title, !.state = "manual"]
  /\ diverged' = (diverged /\ live # call[c].title)
  /\ UNCHANGED <<opencode, scaffolded, faults, chosen, dropped, sent, unsure, acked>> /\ Naming /\ Quiet
(* The user is told to rename again; a naming under way makes it good.     *)
UpdateTitleFails(c) ==
  /\ At(c, "save") /\ Fault /\ Answer(c)
  /\ diverged' = (diverged \/ ~StillPending(entry))
  /\ UNCHANGED <<opencode, entry, scaffolded, chosen, dropped, sent, unsure, acked>> /\ Naming /\ Quiet

(* The list of chats: opencode's title for one nobody named here.          *)
ListChats(c) ==
  /\ Begin(c, "refresh", [NoCall EXCEPT !.title =
       IF entry.state \in {"", "eligible"} THEN live ELSE entry.title])
  /\ UNCHANGED <<opencode, entry, holder, scaffolded, history>> /\ Naming
Refresh(c) ==
  /\ At(c, "refresh") /\ Answer(c)
  /\ entry' = IF entry.owner = "unassigned" /\ entry.state = ""
              THEN [entry EXCEPT !.title = call[c].title] ELSE entry
  /\ UNCHANGED <<opencode, scaffolded, faults, history>> /\ Naming /\ Quiet

-----------------------------------------------------------------------------
(* Promotion: confirmed for one revision, recorded, then sent.             *)

Promote(c) == \E n \in 1 .. revision :
  LET recorded == entry.owner = "unassigned" /\ entry.promotion = n IN
  /\ IF entry.owner = "unassigned" /\ ~recorded
     THEN BeginLocked(c, "confirm", [NoCall EXCEPT !.revision = n])
     ELSE holder = None /\ UNCHANGED holder /\ Begin(c, "idle", NoCall)
  /\ acked' = IF recorded THEN acked \cup {n} ELSE acked
  /\ UNCHANGED <<opencode, entry, scaffolded, chosen, diverged, dropped, sent, unsure>> /\ Naming

PromoteOnly == UNCHANGED <<opencode, entry, scaffolded>> /\ Naming /\ Quiet
(* confirmedIdle, in its two reads.                                        *)
Confirm(c) ==
  /\ At(c, "confirm") /\ UNCHANGED <<faults, history>> /\ PromoteOnly
  /\ IF call[c].revision = revision THEN Goto(c, "busy") /\ UNCHANGED holder ELSE Answer(c)
LookIdle(c) ==
  /\ At(c, "busy") /\ UNCHANGED <<faults, history>> /\ PromoteOnly
  /\ IF running THEN Answer(c) ELSE Goto(c, "record") /\ UNCHANGED holder
ConfirmFails(c) ==
  /\ pc[c] \in {"confirm", "busy", "record"} /\ Fault /\ Answer(c)
  /\ UNCHANGED history /\ PromoteOnly
(* Mutant: the instruction is sent and not recorded. *)
RecordNothing(c) ==
  /\ At(c, "record") /\ Goto(c, "send")
  /\ UNCHANGED <<opencode, entry, holder, scaffolded, faults, history>> /\ Naming /\ Quiet

RecordPromotion(c) ==
  /\ At(c, "record") /\ Goto(c, "send")
  /\ entry' = [entry EXCEPT !.promotion = call[c].revision]
  /\ UNCHANGED <<opencode, holder, scaffolded, faults, history>> /\ Naming /\ Quiet

Take(n) == waiting' = TRUE /\ sent' = [sent EXCEPT ![n] = @ + 1]
SendPromotion(c) ==
  /\ At(c, "send") /\ Answer(c) /\ Take(call[c].revision)
  /\ UNCHANGED <<live, revision, running, entry, scaffolded, faults,
                 chosen, diverged, dropped, unsure, acked>> /\ Naming /\ Quiet
(* An error: the service refused, or took the instruction and its answer   *)
(* was lost.                                                               *)
SendFails(c) ==
  /\ At(c, "send") /\ Fault /\ Goto(c, "unrecord")
  /\ \/ UNCHANGED <<waiting, sent, unsure>>
     \/ Take(call[c].revision) /\ unsure' = unsure \cup {call[c].revision}
  /\ UNCHANGED <<live, revision, running, entry, holder, scaffolded,
                 chosen, diverged, dropped, acked>> /\ Naming /\ Quiet
Unrecord(c) ==
  /\ At(c, "unrecord") /\ Answer(c)
  /\ entry' = [entry EXCEPT !.promotion = 0]
  /\ UNCHANGED <<opencode, scaffolded, faults, history>> /\ Naming /\ Quiet
UnrecordFails(c) ==
  /\ At(c, "unrecord") /\ Fault /\ Answer(c)
  /\ unsure' = unsure \cup {call[c].revision}
  /\ UNCHANGED <<chosen, diverged, dropped, sent, acked>> /\ PromoteOnly

-----------------------------------------------------------------------------
(* Scaffolding.                                                            *)

Scaffold(c) ==
  /\ entry.owner = "unassigned" /\ ~scaffolded
  /\ BeginLocked(c, "create", NoCall)
  /\ UNCHANGED <<opencode, entry, scaffolded, history>> /\ Naming
CreateChange(c) ==
  /\ At(c, "create") /\ Goto(c, "retitle") /\ scaffolded' = TRUE
  /\ UNCHANGED <<opencode, entry, holder, faults, history>> /\ Naming /\ Quiet
CreateFails(c) ==
  /\ At(c, "create") /\ Fault /\ Answer(c)
  /\ UNCHANGED <<opencode, entry, scaffolded, history>> /\ Naming /\ Quiet
Retitle(c) ==
  /\ At(c, "retitle") /\ Goto(c, "move") /\ live' = "change" /\ chosen' = TRUE
  /\ UNCHANGED <<revision, running, waiting, entry, holder, scaffolded, faults,
                 diverged, dropped, sent, unsure, acked>> /\ Naming /\ Quiet
RetitleFails(c) ==
  /\ At(c, "retitle") /\ Fault /\ Goto(c, "move") /\ diverged' = TRUE
  /\ \/ UNCHANGED <<live, chosen>>
     \/ live' = "change" /\ chosen' = TRUE
  /\ UNCHANGED <<revision, running, waiting, entry, holder, scaffolded, dropped, sent, unsure, acked>>
  /\ Naming /\ Quiet
MoveToChange(c) ==
  /\ At(c, "move") /\ Answer(c)
  /\ entry' = [entry EXCEPT !.owner = "change", !.title = "change", !.state = "change"]
  /\ diverged' = (diverged /\ live # "change")
  /\ UNCHANGED <<opencode, scaffolded, faults, chosen, dropped, sent, unsure, acked>> /\ Naming /\ Quiet
MoveFails(c) ==
  /\ At(c, "move") /\ Fault /\ Answer(c) /\ diverged' = (diverged \/ ~MadeGood)
  /\ UNCHANGED <<opencode, entry, scaffolded, chosen, dropped, sent, unsure, acked>> /\ Naming /\ Quiet

-----------------------------------------------------------------------------
(* opencode, its own client, and the end of the server.                    *)

Outside == UNCHANGED <<entry, holder, scaffolded, pc, call, faults, sent, unsure, acked, dropped>> /\ Naming /\ Quiet
TurnBegins ==
  /\ waiting /\ ~running /\ revision < MaxRevision
  /\ running' = TRUE /\ waiting' = FALSE /\ revision' = revision + 1
  /\ UNCHANGED <<live, chosen, diverged>> /\ Outside
TurnEnds ==
  /\ running /\ revision < MaxRevision
  /\ running' = FALSE /\ revision' = revision + 1
  /\ UNCHANGED <<live, waiting, chosen, diverged>> /\ Outside
(* A rename that opencode takes only after its caller gave up on it counts *)
(* as one of its own client's.                                             *)
ForeignRename ==
  /\ live' = "terminal" /\ chosen' = TRUE
  /\ diverged' = (diverged \/ ~MadeGood \/ namer \in {"apply", "record"}
               \/ \E c \in Clients : pc[c] \in {"save", "move"})
  /\ UNCHANGED <<revision, running, waiting>> /\ Outside

Restart ==
  /\ restarts < MaxRestarts /\ restarts' = restarts + 1
  /\ pc' = [c \in Clients |-> "idle"] /\ call' = [c \in Clients |-> NoCall]
  /\ holder' = None /\ scaffolded' = FALSE /\ namer' = "idle" /\ job' = NoJob
  /\ dropped' = (dropped \/ namer # "idle")
  /\ diverged' = (diverged \/ (~MadeGood /\ \E c \in Clients : pc[c] \in {"save", "move"}))
  /\ unsure' = unsure \cup {call[c].revision : c \in {d \in Clients : pc[d] \in {"send", "unrecord"}}}
  /\ UNCHANGED <<opencode, entry, calls, faults, chosen, sent, acked>>

-----------------------------------------------------------------------------
Arrives(c) == Input(c) \/ Rename(c) \/ ListChats(c) \/ Promote(c) \/ Scaffold(c)
Serves(c) ==
  \/ Claim(c) \/ ClaimFails(c) \/ Refresh(c)
  \/ RenameSession(c) \/ RenameFails(c) \/ UpdateTitle(c) \/ UpdateTitleFails(c)
  \/ Confirm(c) \/ LookIdle(c) \/ ConfirmFails(c) \/ RecordPromotion(c)
  \/ SendPromotion(c) \/ SendFails(c) \/ Unrecord(c) \/ UnrecordFails(c)
  \/ CreateChange(c) \/ CreateFails(c) \/ Retitle(c) \/ RetitleFails(c)
  \/ MoveToChange(c) \/ MoveFails(c)
Names ==
  \/ Generate \/ NamerLock \/ NamerCheck
  \/ Look \/ LookSaveFails \/ LookFails \/ Apply \/ ApplyFails \/ Record \/ RecordFails
Service == TurnBegins \/ TurnEnds \/ ForeignRename
Next == \/ \E c \in Clients : Arrives(c) \/ Serves(c)
        \/ Names \/ Service \/ Restart
Spec == Init /\ [][Next]_vars

(* Every call to opencode ends within the client's thirty seconds, so a    *)
(* request ends and gives up the lock, and so does the naming.             *)
FairSpec == Spec /\ WF_vars(Names) /\ \A c \in Clients : WF_vars(Serves(c))

-----------------------------------------------------------------------------
(* The values the variables take; a naming runs only while its claim does, *)
(* and whoever holds sessionOps is at work.                                *)
TypeOK ==
  /\ live \in Titles /\ revision \in Revisions /\ running \in BOOLEAN /\ waiting \in BOOLEAN
  /\ entry \in Entries /\ scaffolded \in BOOLEAN
  /\ pc \in [Clients -> Labels]
  /\ call \in [Clients -> [revision : Revisions \cup {0}, title : Titles \cup {None}]]
  /\ namer \in {"idle", "generate", "lock", "check", "look", "apply", "record"}
  /\ job \in [original : Titles \cup {None}, title : Titles \cup {None}, expired : BOOLEAN]
  /\ calls \in 0 .. MaxCalls /\ faults \in 0 .. MaxFaults /\ restarts \in 0 .. MaxRestarts
  /\ chosen \in BOOLEAN /\ diverged \in BOOLEAN /\ dropped \in BOOLEAN
  /\ sent \in [Revisions -> Nat] /\ unsure \subseteq Revisions /\ acked \subseteq Revisions
  /\ holder \in Clients => pc[holder] # "idle"
  /\ holder = Namer <=> namer \in {"check", "look", "apply", "record"}
  /\ holder \in Clients \cup {None, Namer}

(* chatnames.go, "a late generation cannot overwrite a title chosen while  *)
(* the request was in flight": unless the naming could not look, or        *)
(* opencode's own client renamed right after it did.                       *)
ChosenTitleKept == chosen /\ live \in {"generated", "fallback"} => diverged

(* The title the server stored for a chat it named, or somebody did, is    *)
(* opencode's, whenever no rename is under way: the renames of two         *)
(* requests and of the naming reach both in one order.                     *)
TitlesAgree ==
  holder = None /\ entry.state \in {"auto", "manual", "change"} /\ ~diverged => entry.title = live

(* chatpromotion.go, "a repeated admission of this exact confirmation      *)
(* never sends another input": unless the answer to the first was lost.    *)
(* And whoever is told that a promotion is recorded may count on its       *)
(* instruction, but for a stop before it was sent or a record that could   *)
(* not be undone.                                                          *)
PromotedOnce == \A n \in Revisions \ unsure : sent[n] <= 1 /\ (n \in acked => sent[n] = 1)

(* A claimed naming ends, with the model's title, the fallback or the one  *)
(* the user chose.                                                         *)
PendingIsNamed == entry.state = "pending" ~> entry.state # "pending" \/ dropped
=============================================================================
