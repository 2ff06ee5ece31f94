------------------------ MODULE ChatTranscriptProofs ------------------------
(***************************************************************************)
(* Theorems about ChatTranscript, for any clients, page length and bounds. *)
(*                                                                         *)
(* TypeInv says what a request carries at each label and what stands in    *)
(* the inbox and the transcript. The compactions that anybody answers for  *)
(* are Claimed. FirstInv follows the promise that input makes when it was  *)
(* checked: what it answers for is not forgotten, unless a restoration     *)
(* waits in the inbox. OnceInv follows a request that is about to restore, *)
(* CommitInv one that is about to commit.                                  *)
(***************************************************************************)
EXTENDS ChatTranscript, FiniteSetTheorems, SequenceTheorems, TLAPS

-----------------------------------------------------------------------------
(* The invariant                                                           *)

Reverts == {"revert", "stage", "commit", "clear"}
KnowsOf(label, request) ==
  /\ label = "idle" => request = NoCall
  /\ label \in {"inbox", "transcript", "inject", "admit"} <=> request.op \in {"send", "resume"}
  /\ request.op \in Reverts => request.target \in Ids
  /\ label \in {"reread", "commit"} => request.op = "revert"
  /\ label \notin {"inject", "admit"} => request.after = {}
  /\ request.from <= next
Knows(c) == KnowsOf(pc[c], call[c])
Everything == inbox \cup ToSet(log)
Placed ==
  /\ \A m \in Everything : m.id < next
  /\ \A m \in inbox : m.kind \in {"user", "restore", "compact"}
  /\ \A i \in DOMAIN log : log[i].kind = "compacting" => i = Len(log)
TypeInv == TypeOK /\ (\A c \in Clients : Knows(c)) /\ Placed

Claimed(k) ==
  \/ \E m \in Everything : k \in m.after
  \/ \E c \in Clients : k \in call[c].after \cup call[c].forgotten
Unfit(k) == k >= next \/ \E m \in Everything : m.id = k /\ m.kind # "compaction"
ClaimsInv == \A k \in Ids : Claimed(k) => ~Unfit(k)

Promised(waiting, s, after) == OfKind(waiting, "restore") = {} => Forgotten(s) \cap after = {}
FirstInv ==
  /\ RestoredFirst
  /\ \A m \in OfKind(inbox, "user") : Promised(inbox, log, m.after)
  /\ \A c \in Clients : pc[c] # "inject" => Promised(inbox, log, call[c].after)

Behind == \A i, j \in DOMAIN log : log[j].kind = "restore" /\ log[i].id \in log[j].after => i < j
OnceOf(c) ==
  /\ call[c].op = "resume" => call[c].item < next /\ \A m \in Restorations : m.id # call[c].item
  /\ pc[c] = "transcript" /\ ~call[c].blind => \A m \in OfKind(inbox, "restore") : call[c].from <= m.id
  /\ pc[c] = "inject" /\ ~call[c].blind =>
       \A m \in Restorations : m.after = call[c].forgotten => call[c].from <= m.id
OnceInv == RestoredOnce /\ Behind /\ \A c \in Clients : OnceOf(c)

CommitInv ==
  /\ CommitsConfirmed
  /\ \A c \in PastLook \ raced : staged = call[c].target
  /\ \A c \in Clients : call[c].unseen = {}
  /\ \A c \in Clients : pc[c] = "guard" /\ c \notin stale /\ call[c].shown # {} =>
       call[c].shown = IdsOf(ToSet(log))

TranscriptInv == TypeInv /\ ClaimsInv /\ FirstInv /\ OnceInv /\ CommitInv

-----------------------------------------------------------------------------
(* Messages in order                                                       *)

LEMMA RankBounds ==
  ASSUME NEW S \in SUBSET Messages, IsFiniteSet(S), NEW m \in S
  PROVE  Rank(S, m) \in 1 .. Cardinality(S)
<1> DEFINE T == {o \in S : o.id <= m.id}
<1>1. /\ IsFiniteSet(T) /\ Cardinality(T) <= Cardinality(S) /\ Cardinality(T) \in Nat
      /\ Cardinality(S) \in Nat
  BY FS_Subset, FS_CardinalityType
<1>2. m.id \in Nat
  BY DEF Messages, Ids
<1>3. m \in T
  BY <1>2
<1>4. Cardinality(T) # 0
  BY <1>1, <1>3, FS_EmptySet
<1> QED BY <1>1, <1>4 DEF Rank

LEMMA RankOrders ==
  ASSUME NEW S \in SUBSET Messages, IsFiniteSet(S), NEW m \in S, NEW o \in S, m.id < o.id
  PROVE  Rank(S, m) < Rank(S, o)
<1> DEFINE T == {p \in S : p.id <= m.id}
           U == {p \in S : p.id <= o.id}
<1>1. IsFiniteSet(U) /\ Cardinality(U) \in Nat
  BY FS_Subset, FS_CardinalityType
<1>2. \A p \in S : p.id \in Nat
  BY DEF Messages, Ids
<1>3. T \subseteq U
  BY <1>2
<1>4. o \in U /\ o \notin T
  BY <1>2
<1> HIDE DEF T, U
<1>5. IsFiniteSet(T) /\ Cardinality(T) <= Cardinality(U) /\ Cardinality(T) \in Nat
  BY <1>1, <1>3, FS_Subset, FS_CardinalityType
<1>6. Cardinality(T) # Cardinality(U)
  BY <1>1, <1>3, <1>4, FS_Subset
<1> QED BY <1>1, <1>5, <1>6 DEF Rank, T, U

LEMMA InOrderIs ==
  ASSUME NEW S \in SUBSET Messages, IsFiniteSet(S), \A m, o \in S : m.id = o.id => m = o
  PROVE  /\ InOrder(S) \in Seq(S) /\ Len(InOrder(S)) = Cardinality(S) /\ Cardinality(S) \in Nat
         /\ \A i, j \in 1 .. Cardinality(S) : InOrder(S)[i] = InOrder(S)[j] => i = j
<1> DEFINE n == Cardinality(S)
           rank == [m \in S |-> Rank(S, m)]
<1>1. n \in Nat
  BY FS_CardinalityType
<1>2. rank \in [S -> 1 .. n]
  BY RankBounds
<1>3. \A m, o \in S : rank[m] = rank[o] => m = o
  <2> SUFFICES ASSUME NEW m \in S, NEW o \in S, m # o PROVE rank[m] # rank[o]
    OBVIOUS
  <2>1. m.id \in Nat /\ o.id \in Nat /\ m.id # o.id
    BY DEF Messages, Ids
  <2>2. Rank(S, m) \in Nat /\ Rank(S, o) \in Nat
    BY <1>1, RankBounds
  <2>3. CASE m.id < o.id
    BY <2>2, <2>3, RankOrders
  <2>4. CASE o.id < m.id
    BY <2>2, <2>4, RankOrders
  <2> QED BY <2>1, <2>3, <2>4
<1> HIDE DEF n, rank
<1>4. rank \in Injection(S, 1 .. n)
  BY <1>2, <1>3 DEF Injection, IsInjective
<1>5. IsFiniteSet(1 .. n) /\ Cardinality(1 .. n) = n
  BY <1>1, FS_Interval
<1>6. rank \in Surjection(S, 1 .. n)
  BY <1>4, <1>5, FS_Injection DEF n
<1>7. \A k \in 1 .. n : \E m \in S : Rank(S, m) = k
  BY <1>6 DEF Surjection, rank
<1>8. InOrder(S) = [k \in 1 .. n |-> CHOOSE m \in S : Rank(S, m) = k]
  BY DEF InOrder, n
<1>9. \A k \in 1 .. n : InOrder(S)[k] \in S /\ Rank(S, InOrder(S)[k]) = k
  BY <1>7, <1>8
<1>10. InOrder(S) \in [1 .. n -> S]
  BY <1>8, <1>9
<1> QED BY <1>1, <1>9, <1>10 DEF n

LEMMA InboxIsFinite ==
  ASSUME TypeOK, TranscriptAssumption
  PROVE  IsFiniteSet(inbox)
<1> DEFINE id == [m \in inbox |-> m.id]
<1>1. id \in Injection(inbox, Ids)
  BY DEF TypeOK, Messages, Injection, IsInjective
<1>2. IsFiniteSet(Ids)
  BY FS_Interval DEF Ids, TranscriptAssumption
<1> QED BY <1>1, <1>2, FS_Injection

LEMMA MarksOf ==
  ASSUME NEW s \in Seq(Messages), NEW k
  PROVE  k \in Forgotten(s) <=>
           \E i \in 1 .. Len(s) : /\ s[i].kind = "compaction" /\ s[i].id = k
                                  /\ \A j \in i + 1 .. Len(s) : s[j].kind \notin Marks
<1>1. DOMAIN s = 1 .. Len(s) /\ "compaction" \in Marks
  BY LenProperties DEF Marks
<1> QED BY <1>1 DEF Forgotten, NewestMark

-----------------------------------------------------------------------------
(* The types                                                               *)

LEMMA NoCallType ==
  ASSUME TRUE PROVE NoCall \in Calls
BY DEF NoCall, Calls, Ops, Ids

LEMMA LogIs ==
  ASSUME log \in Seq(Messages)
  PROVE  /\ Len(log) \in Nat /\ DOMAIN log = 1 .. Len(log)
         /\ \A i \in 1 .. Len(log) : log[i] \in Messages /\ log[i] \in ToSet(log)
         /\ \A m \in ToSet(log) : m \in Messages /\ \E i \in 1 .. Len(log) : m = log[i]
BY LenProperties DEF ToSet

(* A request's label and what it carries, and nothing of another's.        *)
Moves(c, label, request) ==
  /\ pc' = [pc EXCEPT ![c] = label] /\ call' = [call EXCEPT ![c] = request]
  /\ label \in Labels /\ request \in Calls

LEMMA MovesKnows ==
  ASSUME TypeInv, NEW c \in Clients, NEW label, NEW request, Moves(c, label, request),
         KnowsOf(label, request), next' \in Nat, next <= next'
  PROVE  /\ pc' \in [Clients -> Labels] /\ call' \in [Clients -> Calls]
         /\ \A d \in Clients : Knows(d)'
<1>1. pc \in [Clients -> Labels] /\ call \in [Clients -> Calls] /\ next \in Nat
  BY DEF TypeInv, TypeOK
<1>2. pc' \in [Clients -> Labels] /\ call' \in [Clients -> Calls]
  BY <1>1 DEF Moves
<1>3. ASSUME NEW d \in Clients
      PROVE  Knows(d)'
  <2>1. call'[d].from \in Nat /\ call[d].from \in Nat /\ request.from \in Nat
    BY <1>1, <1>2 DEF Calls, Moves
  <2>2. CASE d = c
    <3>1. pc'[d] = label /\ call'[d] = request
      BY <1>1, <2>2 DEF Moves
    <3>2. request.from <= next'
      BY <1>1, <2>1 DEF KnowsOf
    <3> QED BY <3>1, <3>2 DEF KnowsOf, Knows
  <2>3. CASE d # c
    <3>1. pc'[d] = pc[d] /\ call'[d] = call[d]
      BY <1>1, <2>3 DEF Moves
    <3>2. Knows(d)
      BY DEF TypeInv
    <3>3. call[d].from <= next'
      BY <1>1, <2>1, <3>2 DEF Knows, KnowsOf
    <3> QED BY <3>1, <3>2, <3>3 DEF Knows, KnowsOf
  <2> QED BY <2>2, <2>3
<1> QED BY <1>2, <1>3

(* Every step of a request but a commit is a move of its own.              *)
Looks(c) ==
  \/ Send(c) \/ Resume(c) \/ AskCompact(c) \/ AskRevert(c) \/ AskFinal(c)
  \/ FailOpen(c) \/ CheckInbox(c) \/ InboxUnread(c) \/ ReadTranscript(c) \/ AdmitFails(c)
  \/ Guard(c) \/ LookIdle(c) \/ Refused(c) \/ Reread(c)
Restages(c) == Stage(c) \/ Clear(c)
Admits(c) == Inject(c) \/ Admit(c) \/ Compact(c)

LEMMA Typed ==
  ASSUME TypeInv, NEW c \in Clients
  PROVE  /\ pc \in [Clients -> Labels] /\ call \in [Clients -> Calls] /\ pc[c] \in Labels /\ call[c] \in Calls
         /\ KnowsOf(pc[c], call[c]) /\ next \in Nat \ {0} /\ NoCall \in Calls
BY NoCallType DEF TypeInv, TypeOK, Knows

LEMMA NoCallIsIdle ==
  ASSUME TranscriptAssumption, TypeInv
  PROVE  NoCall \in Calls /\ KnowsOf("idle", NoCall)
<1>1. next \in Nat \ {0}
  BY DEF TypeInv, TypeOK
<1>2. NoCall.op \notin {"send", "resume"} \cup Reverts
  BY DEF TranscriptAssumption, NoCall, Reverts
<1>3. NoCall.after = {} /\ NoCall.from = 0
  BY DEF NoCall
<1>4. NoCall.from <= next
  BY <1>1, <1>3
<1> QED BY <1>2, <1>3, <1>4, NoCallType DEF KnowsOf

LEMMA AnswerMoves ==
  ASSUME TranscriptAssumption, TypeInv, NEW c \in Clients, Answer(c)
  PROVE  Moves(c, "idle", NoCall) /\ KnowsOf("idle", NoCall)
BY NoCallIsIdle DEF Answer, Goto, With, Moves, Labels

LEMMA Fields ==
  ASSUME NEW r \in Calls
  PROVE  /\ r.after \in SUBSET Ids /\ r.forgotten \in SUBSET Ids /\ r.from \in Nat /\ r.op \in Ops
         /\ \A ids, more \in SUBSET Ids :
              /\ [r EXCEPT !.after = ids] \in Calls /\ [r EXCEPT !.blind = TRUE] \in Calls
              /\ [r EXCEPT !.after = ids, !.forgotten = more] \in Calls
              /\ [r EXCEPT !.shown = {}, !.unseen = ids] \in Calls
BY DEF Calls

LEMMA IdsOfLog ==
  ASSUME TypeOK
  PROVE  /\ IdsOf(ToSet(log)) \in SUBSET Ids /\ Compactions(log) \in SUBSET Ids
         /\ \A kind : IdsOf(OfKind(ToSet(log), kind)) \in SUBSET Ids
BY LogIs DEF TypeOK, IdsOf, OfKind, Compactions, Messages

LEMMA PageIs ==
  ASSUME TypeOK, TranscriptAssumption
  PROVE  \E start \in 0 .. Len(log) :
           /\ NewestPage \in Seq(Messages) /\ Len(NewestPage) = Len(log) - start
           /\ \A i \in 1 .. Len(log) - start : NewestPage[i] = log[start + i]
<1> DEFINE start == IF Len(log) > Page THEN Len(log) - Page ELSE 0
<1>1. Len(log) \in Nat /\ Page \in Nat /\ start \in 0 .. Len(log)
  BY LogIs DEF TypeOK, TranscriptAssumption
<1>2. \A i \in start + 1 .. Len(log) : log[i] \in Messages
  BY <1>1, LogIs DEF TypeOK
<1> HIDE DEF start
<1>3. /\ SubSeq(log, start + 1, Len(log)) \in Seq(Messages)
      /\ Len(SubSeq(log, start + 1, Len(log))) = IF start + 1 <= Len(log) THEN Len(log) - (start + 1) + 1 ELSE 0
      /\ \A i \in 1 .. Len(log) - (start + 1) + 1 : SubSeq(log, start + 1, Len(log))[i] = log[(start + 1) + i - 1]
  BY <1>1, <1>2, SubSeqProperties
<1>4. NewestPage = SubSeq(log, start + 1, Len(log))
  BY DEF NewestPage, start
<1>5. Len(NewestPage) = Len(log) - start
  BY <1>1, <1>3, <1>4
<1>6. \A i \in 1 .. Len(log) - start : NewestPage[i] = log[start + i]
  BY <1>1, <1>3, <1>4
<1> QED BY <1>1, <1>3, <1>4, <1>5, <1>6

LEMMA PageIds ==
  ASSUME TypeOK, TranscriptAssumption
  PROVE  /\ Compactions(NewestPage) \subseteq Compactions(log) /\ Compactions(log) \in SUBSET Ids
         /\ Forgotten(NewestPage) \subseteq Compactions(log)
<1>1. PICK start \in 0 .. Len(log) :
        /\ NewestPage \in Seq(Messages) /\ Len(NewestPage) = Len(log) - start
        /\ \A i \in 1 .. Len(log) - start : NewestPage[i] = log[start + i]
  BY PageIs
<1>2. Len(log) \in Nat /\ DOMAIN NewestPage = 1 .. Len(log) - start
  BY <1>1, LogIs, LenProperties DEF TypeOK
<1>3. ASSUME NEW i \in DOMAIN NewestPage PROVE NewestPage[i] \in ToSet(log)
  <2>1. i \in 1 .. Len(log) - start /\ start + i \in 1 .. Len(log)
    BY <1>2
  <2>2. log[start + i] \in ToSet(log)
    BY <2>1, LogIs DEF TypeOK
  <2> QED BY <1>1, <2>1, <2>2
<1>4. Compactions(NewestPage) \subseteq Compactions(log)
  BY <1>3 DEF Compactions, IdsOf, OfKind, ToSet
<1>5. Forgotten(NewestPage) \subseteq Compactions(log)
  BY <1>3 DEF Forgotten, Compactions, IdsOf, OfKind
<1> QED BY <1>4, <1>5, IdsOfLog

LEMMA LooksMove ==
  ASSUME TranscriptAssumption, TypeInv, NEW c \in Clients, Looks(c)
  PROVE  \E label, request : Moves(c, label, request) /\ KnowsOf(label, request)
<1>0. /\ pc \in [Clients -> Labels] /\ call \in [Clients -> Calls] /\ pc[c] \in Labels /\ call[c] \in Calls
      /\ KnowsOf(pc[c], call[c]) /\ next \in Nat \ {0} /\ NoCall \in Calls
  BY Typed
<1>1. CASE Send(c)
  <2> DEFINE r == [NoCall EXCEPT !.op = "send", !.from = next]
  <2>1. r \in Calls /\ r.op = "send" /\ r.after = {} /\ r.from = next
    BY <1>0 DEF NoCall, Calls, Ops
  <2>2. pc' = [pc EXCEPT ![c] = "inbox"] /\ call' = [call EXCEPT ![c] = r]
    BY <1>1 DEF Send, Begin, Goto, With
  <2> HIDE DEF r
  <2>3. Moves(c, "inbox", r) /\ KnowsOf("inbox", r)
    BY <1>0, <2>1, <2>2 DEF Moves, KnowsOf, Labels, Reverts
  <2> QED BY <2>3
<1>2. CASE Resume(c)
  <2>1. PICK m \in inbox, d \in {"queue", "steer"} :
          Begin(c, IF d = "steer" THEN "inbox" ELSE "admit",
                [NoCall EXCEPT !.op = "resume", !.item = m.id, !.delivery = d, !.from = next])
    BY <1>2 DEF Resume
  <2> DEFINE r == [NoCall EXCEPT !.op = "resume", !.item = m.id, !.delivery = d, !.from = next]
             label == IF d = "steer" THEN "inbox" ELSE "admit"
  <2>2. m.id \in Ids
    BY DEF TypeInv, TypeOK, Messages
  <2>3. r \in Calls /\ r.op = "resume" /\ r.after = {} /\ r.from = next
    BY <1>0, <2>2 DEF NoCall, Calls, Ops
  <2>4. pc' = [pc EXCEPT ![c] = label] /\ call' = [call EXCEPT ![c] = r] /\ label \in {"inbox", "admit"}
    BY <2>1 DEF Begin, Goto, With
  <2> HIDE DEF r, label
  <2>5. Moves(c, label, r) /\ KnowsOf(label, r)
    BY <1>0, <2>3, <2>4 DEF Moves, KnowsOf, Labels, Reverts
  <2> QED BY <2>5
<1>3. ASSUME NEW op \in Reverts \cup {"compact"}, NEW target \in Ids \cup {0}, Confirm(c, op, target),
             op \in Reverts => target \in Ids
      PROVE  \E label, request : Moves(c, label, request) /\ KnowsOf(label, request)
  <2> DEFINE shown == IF op \in {"revert", "commit"} THEN IdsOf(ToSet(log)) ELSE {}
             r == [NoCall EXCEPT !.op = op, !.target = target, !.shown = shown]
  <2>1. IdsOf(ToSet(log)) \in SUBSET Ids
    BY IdsOfLog DEF TypeInv
  <2>2. shown \in SUBSET Ids /\ op \in Ops /\ target \in Ids \cup {0}
    BY <1>3, <2>1 DEF Ops, Reverts
  <2>3. pc' = [pc EXCEPT ![c] = "guard"] /\ call' = [call EXCEPT ![c] = r]
    BY <1>3 DEF Confirm, Begin, Goto, With
  <2> HIDE DEF shown
  <2>4. r \in Calls /\ r.op = op /\ r.target = target /\ r.after = {} /\ r.from = 0
    BY <2>2 DEF NoCall, Calls
  <2> HIDE DEF r
  <2>5. Moves(c, "guard", r) /\ KnowsOf("guard", r)
    BY <1>0, <1>3, <2>3, <2>4 DEF Moves, KnowsOf, Labels, Reverts
  <2> QED BY <2>5
<1>4. CASE AskCompact(c)
  <2>1. Confirm(c, "compact", 0)
    BY <1>4 DEF AskCompact
  <2>2. "compact" \notin Reverts
    BY DEF Reverts
  <2> QED BY <1>3, <2>1, <2>2
<1>5. CASE AskRevert(c)
  <2>1. PICK op \in {"revert", "stage"}, id \in IdsOf(OfKind(ToSet(log), "user")) : Confirm(c, op, id)
    BY <1>5 DEF AskRevert
  <2>2. op \in Reverts /\ id \in Ids
    BY IdsOfLog DEF TypeInv, Reverts
  <2> QED BY <1>3, <2>1, <2>2
<1>6. CASE AskFinal(c)
  <2>1. PICK op \in {"commit", "clear"} : staged # 0 /\ Confirm(c, op, staged)
    BY <1>6 DEF AskFinal
  <2>2. op \in Reverts /\ staged \in Ids
    BY <2>1 DEF TypeInv, TypeOK, Reverts
  <2> QED BY <1>3, <2>1, <2>2
<1>7. CASE FailOpen(c)
  <2> DEFINE r == [call[c] EXCEPT !.after = {}]
  <2>1. r \in Calls /\ r.op = call[c].op /\ r.after = {} /\ r.from = call[c].from
          /\ r.target = call[c].target
    BY <1>0, Fields DEF Calls
  <2>2. pc' = [pc EXCEPT ![c] = "admit"] /\ call' = [call EXCEPT ![c] = r] /\ pc[c] \in {"inbox", "transcript", "inject"}
    BY <1>7 DEF FailOpen, Goto, With
  <2> HIDE DEF r
  <2>3. Moves(c, "admit", r) /\ KnowsOf("admit", r)
    BY <1>0, <2>1, <2>2 DEF Moves, KnowsOf, Labels, Reverts
  <2> QED BY <2>3
<1>8. ASSUME NEW label \in {"transcript", "inject", "admit"}, NEW ids \in SUBSET Ids, NEW more \in SUBSET Ids,
             NEW r \in {call[c], [call[c] EXCEPT !.blind = TRUE], [call[c] EXCEPT !.after = ids],
                        [call[c] EXCEPT !.after = ids, !.forgotten = more]},
             pc[c] \in {"inbox", "transcript", "inject"}, label = "transcript" => r.after = call[c].after /\ pc[c] = "inbox",
             pc' = [pc EXCEPT ![c] = label], call' = [call EXCEPT ![c] = r]
      PROVE  \E l, request : Moves(c, l, request) /\ KnowsOf(l, request)
  <2>1. r \in Calls
    <3>1. /\ call[c] \in Calls /\ [call[c] EXCEPT !.blind = TRUE] \in Calls /\ [call[c] EXCEPT !.after = ids] \in Calls
          /\ [call[c] EXCEPT !.after = ids, !.forgotten = more] \in Calls
      BY <1>0, Fields
    <3> QED BY <1>8, <3>1
  <2>2. r.op = call[c].op /\ r.from = call[c].from /\ r.target = call[c].target
    BY <1>0, <1>8 DEF Calls
  <2>3. Moves(c, label, r)
    BY <1>8, <2>1 DEF Moves, Labels
  <2>4. KnowsOf(label, r)
    BY <1>0, <1>8, <2>2 DEF KnowsOf, Reverts
  <2> QED BY <2>3, <2>4
<1>9. CASE CheckInbox(c)
  <2>1. Compactions(log) \in SUBSET Ids
    BY IdsOfLog DEF TypeInv
  <2>2. CASE OfKind(inbox, "restore") # {}
    BY <1>8, <1>9, <2>1, <2>2 DEF CheckInbox, At, Goto, With
  <2>3. CASE OfKind(inbox, "restore") = {}
    <3>1. call' = [call EXCEPT ![c] = call[c]] /\ pc' = [pc EXCEPT ![c] = "transcript"] /\ pc[c] = "inbox"
      BY <1>0, <1>9, <2>3 DEF CheckInbox, At, Goto
    <3> QED BY <1>8, <2>1, <3>1
  <2> QED BY <2>2, <2>3
<1>10. CASE InboxUnread(c)
  <2> DEFINE r == [call[c] EXCEPT !.blind = TRUE]
  <2>1. call' = [call EXCEPT ![c] = r] /\ pc' = [pc EXCEPT ![c] = "transcript"] /\ pc[c] = "inbox"
    BY <1>10 DEF InboxUnread, At, Goto, With
  <2>2. r.after = call[c].after
    BY <1>0 DEF Calls
  <2>3. {} \in SUBSET Ids
    OBVIOUS
  <2> QED BY <1>8, <2>1, <2>2, <2>3
<1>11. CASE ReadTranscript(c)
  <2>1. Compactions(NewestPage) \in SUBSET Ids /\ Forgotten(NewestPage) \in SUBSET Ids
    BY PageIds DEF TypeInv
  <2> DEFINE r == [call[c] EXCEPT !.after = Compactions(NewestPage), !.forgotten = Forgotten(NewestPage)]
             label == IF Forgotten(NewestPage) # {} THEN "inject" ELSE "admit"
  <2>2. call' = [call EXCEPT ![c] = r] /\ pc' = [pc EXCEPT ![c] = label] /\ pc[c] = "transcript"
    BY <1>11 DEF ReadTranscript, At, Goto, With
  <2>3. label \in {"inject", "admit"}
    OBVIOUS
  <2> HIDE DEF label
  <2> QED BY <1>8, <2>1, <2>2, <2>3
<1>12. CASE AdmitFails(c)
  BY <1>12, AnswerMoves DEF AdmitFails
<1>13. CASE Guard(c)
  <2>1. CASE ~Confirmed(c)
    BY <1>13, <2>1, AnswerMoves DEF Guard, Refuse
  <2>2. CASE Confirmed(c)
    <3> DEFINE unseen == IF call[c].shown = {} THEN {} ELSE IdsOf(ToSet(log)) \ call[c].shown
               r == [call[c] EXCEPT !.shown = {}, !.unseen = unseen]
    <3>1. unseen \in SUBSET Ids
      BY IdsOfLog DEF TypeInv
    <3>2. call' = [call EXCEPT ![c] = r] /\ pc' = [pc EXCEPT ![c] = "busy"] /\ pc[c] = "guard"
      BY <1>13, <2>2 DEF Guard, At, Goto, With
    <3> HIDE DEF unseen
    <3>3. r \in Calls /\ r.op = call[c].op /\ r.after = call[c].after /\ r.from = call[c].from /\ r.target = call[c].target
      BY <1>0, <3>1, Fields DEF Calls
    <3> HIDE DEF r
    <3>4. Moves(c, "busy", r) /\ KnowsOf("busy", r)
      BY <1>0, <3>2, <3>3 DEF Moves, KnowsOf, Labels, Reverts
    <3> QED BY <3>4
  <2> QED BY <2>1, <2>2
<1>14. CASE LookIdle(c)
  <2>1. CASE running
    BY <1>14, <2>1, AnswerMoves DEF LookIdle, Refuse
  <2>2. CASE ~running
    <3>1. call' = [call EXCEPT ![c] = call[c]] /\ pc' = [pc EXCEPT ![c] = "act"] /\ pc[c] = "busy"
      BY <1>0, <1>14, <2>2 DEF LookIdle, At, Goto
    <3>2. Moves(c, "act", call[c]) /\ KnowsOf("act", call[c])
      BY <1>0, <3>1 DEF Moves, KnowsOf, Labels
    <3> QED BY <3>2
  <2> QED BY <2>1, <2>2
<1>15. CASE Refused(c)
  BY <1>15, AnswerMoves DEF Refused, Refuse
<1>16. CASE Reread(c)
  <2>1. CASE Refuse(c)
    BY <2>1, AnswerMoves DEF Refuse
  <2>2. CASE ~Refuse(c)
    <3>1. call' = [call EXCEPT ![c] = call[c]] /\ pc' = [pc EXCEPT ![c] = "commit"] /\ pc[c] = "reread"
      BY <1>0, <1>16, <2>2 DEF Reread, At, Goto
    <3>2. Moves(c, "commit", call[c]) /\ KnowsOf("commit", call[c])
      BY <1>0, <3>1 DEF Moves, KnowsOf, Labels
    <3> QED BY <3>2
  <2> QED BY <2>1, <2>2
<1> QED BY <1>1, <1>2, <1>4, <1>5, <1>6, <1>7, <1>9, <1>10, <1>11, <1>12, <1>13, <1>14, <1>15, <1>16 DEF Looks

(* What there is of messages, of requests and of the rest.                 *)
Content ==
  /\ log \in Seq(Messages) /\ inbox \subseteq Messages /\ next \in 1 .. MaxId + 1
  /\ \A i, j \in DOMAIN log : log[i].id = log[j].id => i = j
  /\ \A m, o \in inbox : m.id = o.id => m = o
  /\ IdsOf(ToSet(log)) \cap IdsOf(inbox) = {}
  /\ Placed
Requests == pc \in [Clients -> Labels] /\ call \in [Clients -> Calls] /\ \A c \in Clients : Knows(c)
Rest ==
  /\ queued \subseteq Ids /\ running \in BOOLEAN /\ staged \in Ids \cup {0} /\ stale \subseteq Clients
  /\ calls \in 0 .. MaxCalls /\ faults \in 0 .. MaxFaults /\ raced \subseteq Clients
  /\ commits \subseteq [asked : Ids, did : Ids, raced : BOOLEAN, lost : SUBSET Ids]

LEMMA Parts ==
  ASSUME TRUE PROVE TypeInv <=> Content /\ Requests /\ Rest
BY DEF TypeInv, TypeOK, Content, Requests, Rest

LEMMA PartsAfter ==
  ASSUME Content', Requests', Rest' PROVE TypeInv'
BY DEF TypeInv, TypeOK, Content, Requests, Rest

LEMMA SameContent ==
  ASSUME Content, UNCHANGED <<log, inbox, next>>
  PROVE  Content' /\ Everything' = Everything
BY DEF Content, Placed, Everything

(* New input.                                                              *)
LEMMA Added ==
  ASSUME TranscriptAssumption, Content, NEW m \in Messages, m.id = next, m.kind \in {"user", "restore", "compact"},
         next <= MaxId, next' = next + 1, inbox' = inbox \cup {m}, log' = log
  PROVE  Content' /\ Everything' = Everything \cup {m}
<1>1. MaxId \in Nat /\ next \in Nat /\ next' \in 1 .. MaxId + 1
  BY DEF TranscriptAssumption, Content
<1>2. \A o \in Everything : o.id \in Nat /\ o.id < next
  BY LogIs DEF Content, Placed, Everything, Messages, Ids, ToSet
<1>3. Everything' = Everything \cup {m}
  BY DEF Everything
<1>4. \A o \in Everything' : o.id < next'
  BY <1>1, <1>2, <1>3
<1>5. \A o \in Everything : o.id # m.id
  BY <1>1, <1>2
<1>6. \A o, q \in inbox' : o.id = q.id => o = q
  BY <1>5 DEF Content, Everything
<1>7. IdsOf(ToSet(log')) \cap IdsOf(inbox') = {}
  BY <1>5 DEF Content, Everything, IdsOf
<1> QED BY <1>1, <1>3, <1>4, <1>6, <1>7 DEF Content, Placed

LEMMA RestagesMove ==
  ASSUME TranscriptAssumption, TypeInv, NEW c \in Clients, Restages(c)
  PROVE  \E label, request : Moves(c, label, request) /\ KnowsOf(label, request)
<1>0. /\ pc \in [Clients -> Labels] /\ call \in [Clients -> Calls] /\ pc[c] \in Labels /\ call[c] \in Calls
      /\ KnowsOf(pc[c], call[c]) /\ NoCall \in Calls /\ KnowsOf("idle", NoCall)
  BY Typed, NoCallIsIdle
<1>1. ASSUME pc' = [pc EXCEPT ![c] = "idle"], call' = [call EXCEPT ![c] = NoCall]
      PROVE  \E label, request : Moves(c, label, request) /\ KnowsOf(label, request)
  <2>1. Moves(c, "idle", NoCall)
    BY <1>0, <1>1 DEF Moves, Labels
  <2> QED BY <1>0, <2>1
<1>2. CASE Clear(c)
  BY <1>1, <1>2 DEF Clear, Goto, With
<1>3. CASE Stage(c) /\ call[c].op = "revert"
  <2>1. pc' = [pc EXCEPT ![c] = "reread"] /\ call' = [call EXCEPT ![c] = call[c]] /\ pc[c] = "act"
    BY <1>0, <1>3 DEF Stage, At, Goto
  <2>2. Moves(c, "reread", call[c]) /\ KnowsOf("reread", call[c])
    BY <1>0, <1>3, <2>1 DEF Moves, KnowsOf, Labels
  <2> QED BY <2>2
<1>4. CASE Stage(c) /\ call[c].op # "revert"
  BY <1>1, <1>4 DEF Stage, Goto, With
<1> QED BY <1>2, <1>3, <1>4 DEF Restages

LEMMA MovesRequests ==
  ASSUME TypeInv, NEW c \in Clients, \E label, request : Moves(c, label, request) /\ KnowsOf(label, request),
         next' \in Nat, next <= next'
  PROVE  Requests'
<1>1. PICK label, request : Moves(c, label, request) /\ KnowsOf(label, request)
  OBVIOUS
<1> QED BY <1>1, MovesKnows DEF Requests

LEMMA LooksType ==
  ASSUME TranscriptAssumption, TypeInv, NEW c \in Clients, Looks(c)
  PROVE  TypeInv' /\ UNCHANGED <<log, inbox, next>> /\ Everything' = Everything
<1>0. Content /\ Rest /\ next \in Nat
  BY Parts DEF Content
<1>1. UNCHANGED <<log, inbox, next>>
  BY DEF Looks, Send, Resume, AskCompact, AskRevert, AskFinal, Confirm, Begin, FailOpen, CheckInbox, InboxUnread,
         ReadTranscript, AdmitFails, Guard, LookIdle, Refused, Reread, Refuse, service
<1>2. Requests'
  BY <1>0, <1>1, LooksMove, MovesRequests
<1>3. Rest'
  <2>1. ASSUME \/ Send(c) \/ Resume(c) \/ AskCompact(c) \/ AskRevert(c) \/ AskFinal(c)
        PROVE  calls < MaxCalls /\ calls' = calls + 1 /\ UNCHANGED <<service, faults, history>>
    BY <2>1 DEF Send, Resume, AskCompact, AskRevert, AskFinal, Confirm, Begin
  <2>2. ASSUME \/ FailOpen(c) \/ InboxUnread(c)
        PROVE  faults < MaxFaults /\ faults' = faults + 1 /\ UNCHANGED <<service, calls, history>>
    BY <2>2 DEF FailOpen, InboxUnread, Fault
  <2>3. ASSUME CheckInbox(c) \/ ReadTranscript(c)
        PROVE  UNCHANGED <<service, calls, faults, history>>
    BY <2>3 DEF CheckInbox, ReadTranscript
  <2>4. ASSUME AdmitFails(c)
        PROVE  faults < MaxFaults /\ faults' = faults + 1 /\ UNCHANGED <<service, calls, commits>> /\ raced' = raced \ {c}
    BY <2>4 DEF AdmitFails, Fault, Answer
  <2>5. ASSUME Guard(c) \/ LookIdle(c) \/ Refused(c) \/ Reread(c)
        PROVE  UNCHANGED <<service, calls, faults, history>> \/ Refuse(c)
    BY <2>5 DEF Guard, LookIdle, Refused, Reread
  <2>6. CASE Refuse(c)
    BY <1>0, <2>6 DEF Refuse, Answer, Rest
  <2>7. CASE UNCHANGED <<service, history>> /\ (calls' # calls => calls < MaxCalls /\ calls' = calls + 1)
              /\ (faults' # faults => faults < MaxFaults /\ faults' = faults + 1)
    BY <1>0, <2>7 DEF Rest, service, history, TranscriptAssumption
  <2>8. CASE AdmitFails(c)
    BY <1>0, <2>4, <2>8 DEF Rest, service, TranscriptAssumption
  <2> QED BY <2>1, <2>2, <2>3, <2>5, <2>6, <2>7, <2>8 DEF Looks
<1> QED BY <1>0, <1>1, <1>2, <1>3, SameContent, PartsAfter

LEMMA RestagesType ==
  ASSUME TranscriptAssumption, TypeInv, NEW c \in Clients, Restages(c)
  PROVE  TypeInv' /\ UNCHANGED <<log, inbox, next>> /\ Everything' = Everything
<1>0. Content /\ Rest /\ next \in Nat /\ (call[c].op \in Reverts => call[c].target \in Ids)
  BY Parts, Typed DEF Content, KnowsOf
<1>1. UNCHANGED <<log, inbox, next>>
  BY DEF Restages, Stage, Clear, Restage
<1>2. Requests'
  BY <1>0, <1>1, RestagesMove, MovesRequests
<1>3. Rest'
  BY <1>0 DEF Restages, Stage, Clear, Restage, Rest, Touch, PastLook, Reverts
<1> QED BY <1>0, <1>1, <1>2, <1>3, SameContent, PartsAfter

(* Input taken out of the inbox, or changed in what it answers for.        *)
LEMMA InboxTaken ==
  ASSUME Content, UNCHANGED <<log, next>>, inbox' \subseteq inbox
  PROVE  Content' /\ Everything' \subseteq Everything
<1>1. IdsOf(inbox') \subseteq IdsOf(inbox)
  BY DEF IdsOf
<1>2. Everything' \subseteq Everything
  BY DEF Everything
<1> QED BY <1>1, <1>2 DEF Content, Placed

LEMMA InboxChanged ==
  ASSUME Content, UNCHANGED next, inbox' \subseteq Messages,
         \A m \in inbox' : \E o \in inbox : m.id = o.id /\ m.kind = o.kind,
         \A m, o \in inbox' : m.id = o.id => m = o,
         log' \in Seq(Messages), Len(log') <= Len(log), \A i \in 1 .. Len(log') : log'[i] = log[i],
         \A i \in 1 .. Len(log') : log[i].kind = "compacting" => i = Len(log')
  PROVE  Content'
<1>0. /\ Len(log) \in Nat /\ DOMAIN log = 1 .. Len(log)
      /\ \A i \in 1 .. Len(log) : log[i] \in Messages /\ log[i] \in ToSet(log)
  BY LogIs DEF Content
<1>1. /\ Len(log') \in Nat /\ DOMAIN log' = 1 .. Len(log')
      /\ \A i \in 1 .. Len(log') : i \in 1 .. Len(log) /\ log'[i] = log[i]
  BY <1>0, LenProperties
<1>2. ToSet(log') \subseteq ToSet(log)
  <2> SUFFICES ASSUME NEW o \in ToSet(log') PROVE o \in ToSet(log)
    OBVIOUS
  <2>1. PICK i \in 1 .. Len(log') : o = log'[i]
    BY <1>1 DEF ToSet
  <2>2. i \in 1 .. Len(log) /\ o = log[i]
    BY <1>1, <2>1
  <2> QED BY <1>0, <2>2
<1>3. IdsOf(inbox') \subseteq IdsOf(inbox) /\ IdsOf(ToSet(log')) \subseteq IdsOf(ToSet(log))
  BY <1>2 DEF IdsOf
<1>4. \A m \in Everything' : m.id < next'
  BY <1>2 DEF Content, Placed, Everything
<1>5. \A m \in inbox' : m.kind \in {"user", "restore", "compact"}
  BY DEF Content, Placed
<1>6. \A i, j \in DOMAIN log' : log'[i].id = log'[j].id => i = j
  <2> SUFFICES ASSUME NEW i \in 1 .. Len(log'), NEW j \in 1 .. Len(log'), log'[i].id = log'[j].id
               PROVE  i = j
    BY <1>1
  <2>1. i \in DOMAIN log /\ j \in DOMAIN log /\ log[i].id = log[j].id
    BY <1>0, <1>1
  <2> QED BY <2>1 DEF Content
<1>7. \A i \in DOMAIN log' : log'[i].kind = "compacting" => i = Len(log')
  BY <1>1
<1>8. IdsOf(ToSet(log')) \cap IdsOf(inbox') = {}
  BY <1>3 DEF Content
<1> QED BY <1>4, <1>5, <1>6, <1>7, <1>8 DEF Content, Placed

(* A message at the end of the transcript: a new one, or one of the inbox. *)
LEMMA Appended ==
  ASSUME Content, NEW m \in Messages, log' = Append(log, m), ~Compacting, inbox' \subseteq inbox,
         next' \in 1 .. MaxId + 1, next <= next', m.id < next', m.id \notin IdsOf(ToSet(log)), m.id \notin IdsOf(inbox')
  PROVE  /\ Content'
         /\ Len(log) \in Nat /\ Len(log') = Len(log) + 1
         /\ \A i \in 1 .. Len(log) : log'[i] = log[i]
         /\ log'[Len(log) + 1] = m
         /\ Everything' \subseteq Everything \cup {m}
<1>0. /\ Len(log) \in Nat /\ DOMAIN log = 1 .. Len(log) /\ next \in Nat
      /\ \A i \in 1 .. Len(log) : log[i] \in Messages /\ log[i] \in ToSet(log)
  BY LogIs DEF Content
<1>1. log' \in Seq(Messages) /\ Len(log') = Len(log) + 1 /\ DOMAIN log' = 1 .. Len(log) + 1
  BY <1>0, LenProperties, AppendProperties DEF Content
<1>2. /\ \A i \in 1 .. Len(log) : log'[i] = log[i]
      /\ log'[Len(log) + 1] = m
  BY <1>0, AppendProperties DEF Content
<1>3. ToSet(log') \subseteq ToSet(log) \cup {m}
  BY <1>0, <1>1, <1>2 DEF ToSet
<1>4. Everything' \subseteq Everything \cup {m}
  BY <1>3 DEF Everything
<1>5. \A i \in 1 .. Len(log) : log[i].id # m.id /\ log[i].kind # "compacting"
  BY <1>0 DEF IdsOf, Compacting, OfKind
<1>6. \A i, j \in DOMAIN log' : log'[i].id = log'[j].id => i = j
  BY <1>0, <1>1, <1>2, <1>5 DEF Content
<1>7. \A o \in Everything' : o.id < next'
  <2>1. \A o \in Everything : o.id \in Nat /\ o.id < next
    BY LogIs DEF Content, Placed, Everything, Messages, Ids
  <2>2. m.id < next' /\ next' \in Nat
    OBVIOUS
  <2> QED BY <1>0, <1>4, <2>1, <2>2
<1>8. IdsOf(ToSet(log')) \cap IdsOf(inbox') = {}
  <2>1. IdsOf(inbox') \subseteq IdsOf(inbox) /\ IdsOf(ToSet(log')) \subseteq IdsOf(ToSet(log)) \cup {m.id}
    BY <1>3 DEF IdsOf
  <2> QED BY <2>1 DEF Content
<1>9. \A i \in DOMAIN log' : log'[i].kind = "compacting" => i = Len(log')
  BY <1>0, <1>1, <1>2, <1>5
<1> QED BY <1>0, <1>1, <1>2, <1>4, <1>6, <1>7, <1>8, <1>9 DEF Content, Placed

(* The compaction under way comes to its end.                              *)
LEMMA Relabelled ==
  ASSUME Content, NEW kind \in {"assistant", "compaction"}, UNCHANGED <<inbox, next>>,
         log' = [i \in DOMAIN log |-> IF log[i].kind # "compacting" THEN log[i] ELSE [log[i] EXCEPT !.kind = kind]]
  PROVE  /\ Content'
         /\ Len(log) \in Nat /\ Len(log') = Len(log)
         /\ \A i \in 1 .. Len(log) : /\ log[i].kind # "compacting" => log'[i] = log[i]
                                     /\ log[i].kind = "compacting" => i = Len(log)
                                     /\ log[i].kind = "compacting" => log'[i].kind = kind
                                     /\ log'[i].id = log[i].id
<1>0. /\ Len(log) \in Nat /\ DOMAIN log = 1 .. Len(log)
      /\ \A i \in 1 .. Len(log) : log[i] \in Messages /\ log[i] \in ToSet(log)
  BY LogIs DEF Content
<1> DEFINE f == [i \in DOMAIN log |-> IF log[i].kind # "compacting" THEN log[i] ELSE [log[i] EXCEPT !.kind = kind]]
<1>1. \A i \in 1 .. Len(log) : f[i] \in Messages /\ f[i].id = log[i].id
  BY <1>0 DEF Messages, Kinds
<1>2. /\ \A i \in 1 .. Len(log) : log[i].kind # "compacting" => f[i] = log[i]
      /\ \A i \in 1 .. Len(log) : log[i].kind = "compacting" => f[i].kind = kind
  BY <1>0 DEF Messages
<1>3. f \in Seq(Messages) /\ Len(f) = Len(log) /\ DOMAIN f = 1 .. Len(log)
  <2>1. f \in [1 .. Len(log) -> Messages]
    BY <1>0, <1>1
  <2> HIDE DEF f
  <2> QED BY <1>0, <2>1, LenProperties
<1>4. log' = f
  OBVIOUS
<1> HIDE DEF f
<1>5. \A i \in 1 .. Len(log) : log[i].kind = "compacting" => i = Len(log)
  BY <1>0 DEF Content, Placed
<1>6. \A i, j \in DOMAIN log' : log'[i].id = log'[j].id => i = j
  BY <1>0, <1>1, <1>3, <1>4 DEF Content
<1>7. IdsOf(ToSet(log')) \subseteq IdsOf(ToSet(log))
  <2>1. \A o \in ToSet(log') : \E i \in 1 .. Len(log) : o = log'[i]
    BY <1>3, <1>4 DEF ToSet
  <2>2. \A o \in ToSet(log') : \E q \in ToSet(log) : o.id = q.id
    BY <1>0, <1>1, <1>4, <2>1
  <2> QED BY <2>2 DEF IdsOf
<1>8. \A o \in Everything' : o.id < next'
  <2>1. \A o \in inbox : o.id < next
    BY DEF Content, Placed, Everything
  <2>2. \A o \in ToSet(log) : o.id < next
    BY DEF Content, Placed, Everything
  <2>3. \A o \in ToSet(log') : o.id < next
    BY <1>7, <2>2 DEF IdsOf
  <2> QED BY <2>1, <2>3 DEF Everything
<1>9. \A i \in DOMAIN log' : log'[i].kind = "compacting" => i = Len(log')
  BY <1>0, <1>2, <1>3, <1>4, <1>5
<1> QED BY <1>0, <1>1, <1>2, <1>3, <1>4, <1>5, <1>6, <1>7, <1>8, <1>9 DEF Content, Placed

(* A turn takes up input: what waits of restorations, then the input.      *)
LEMMA Landed ==
  ASSUME TranscriptAssumption, TypeOK, Content, NEW m \in inbox, m.kind = "user", ~Compacting,
         log' = log \o InOrder(OfKind(inbox, "restore")) \o <<m>>,
         inbox' = (inbox \ OfKind(inbox, "restore")) \ {m}, UNCHANGED next
  PROVE  /\ Content' /\ Len(log) \in Nat /\ Everything' \subseteq Everything
         /\ \E r \in Nat :
              /\ Len(log') = Len(log) + r + 1
              /\ OfKind(inbox, "restore") # {} => r > 0
              /\ \A i \in 1 .. Len(log) : log'[i] = log[i]
              /\ \A i \in Len(log) + 1 .. Len(log) + r : log'[i] \in OfKind(inbox, "restore")
              /\ log'[Len(log) + r + 1] = m
<1> DEFINE R == OfKind(inbox, "restore")
           r == Cardinality(R)
           q == InOrder(R)
           n == Len(log)
<1>0. /\ n \in Nat /\ DOMAIN log = 1 .. n /\ next \in Nat
      /\ \A i \in 1 .. n : log[i] \in Messages /\ log[i] \in ToSet(log)
  BY LogIs DEF Content
<1>1. R \subseteq inbox /\ inbox \subseteq Messages /\ (\A o \in R : o.kind = "restore") /\ m \notin R
  BY DEF OfKind, Content
<1>2. IsFiniteSet(R) /\ r \in Nat /\ (R # {} => r > 0)
  <2>1. IsFiniteSet(R)
    BY <1>1, InboxIsFinite, FS_Subset
  <2> QED BY <2>1, FS_CardinalityType, FS_EmptySet
<1>3. /\ q \in Seq(R) /\ Len(q) = r
      /\ \A i, j \in 1 .. r : q[i] = q[j] => i = j
  <2>1. R \in SUBSET Messages /\ \A o, p \in R : o.id = p.id => o = p
    BY <1>1 DEF Content
  <2> QED BY <1>2, <2>1, InOrderIs
<1>4. q \in Seq(Messages) /\ \A i \in 1 .. r : q[i] \in R
  BY <1>1, <1>3, SeqMonotonic, ElementOfSeq
<1> HIDE DEF q, r, R, n
<1>5. /\ log \o q \in Seq(Messages) /\ Len(log \o q) = n + r
      /\ \A i \in 1 .. n + r : (log \o q)[i] = IF i <= n THEN log[i] ELSE q[i - n]
  BY <1>3, <1>4, ConcatProperties DEF Content, n
<1>6. log' = (log \o q) \o <<m>>
  BY DEF q, R
<1>7. <<m>> \in Seq(Messages) /\ Len(<<m>>) = 1 /\ <<m>>[1] = m
  BY <1>1
<1>8. /\ log' \in Seq(Messages) /\ Len(log') = (n + r) + 1
      /\ \A i \in 1 .. (n + r) + 1 : log'[i] = IF i <= n + r THEN (log \o q)[i] ELSE <<m>>[i - (n + r)]
  <2> DEFINE front == log \o q
             last == <<m>>
  <2>1. front \in Seq(Messages) /\ last \in Seq(Messages) /\ Len(front) = n + r /\ Len(last) = 1 /\ log' = front \o last
    BY <1>5, <1>6, <1>7
  <2> HIDE DEF front, last
  <2>2. /\ front \o last \in Seq(Messages) /\ Len(front \o last) = Len(front) + Len(last)
        /\ \A i \in 1 .. Len(front) + Len(last) :
              (front \o last)[i] = IF i <= Len(front) THEN front[i] ELSE last[i - Len(front)]
    BY <2>1, ConcatProperties
  <2>3. /\ log' \in Seq(Messages) /\ Len(log') = (n + r) + 1
        /\ \A i \in 1 .. (n + r) + 1 : log'[i] = IF i <= n + r THEN front[i] ELSE last[i - (n + r)]
    BY <2>1, <2>2
  <2> QED BY <2>3 DEF front, last
<1>9. /\ \A i \in 1 .. n : log'[i] = log[i]
      /\ \A i \in n + 1 .. n + r : i - n \in 1 .. r /\ log'[i] = q[i - n] /\ log'[i] \in R
      /\ log'[n + r + 1] = m
  <2>1. \A i \in 1 .. n : log'[i] = log[i]
    BY <1>0, <1>2, <1>5, <1>8
  <2>2. ASSUME NEW i \in n + 1 .. n + r
        PROVE  i - n \in 1 .. r /\ log'[i] = q[i - n] /\ log'[i] \in R
    <3>1. i - n \in 1 .. r /\ i \in 1 .. n + r /\ i \in 1 .. (n + r) + 1 /\ ~(i <= n)
      BY <1>0, <1>2
    <3> QED BY <1>4, <1>5, <1>8, <3>1
  <2>3. log'[n + r + 1] = m
    BY <1>0, <1>2, <1>7, <1>8
  <2> QED BY <2>1, <2>2, <2>3
<1>10. DOMAIN log' = 1 .. n + r + 1
  BY <1>0, <1>2, <1>8, LenProperties
<1>11. ToSet(log') \subseteq ToSet(log) \cup R \cup {m}
  <2> SUFFICES ASSUME NEW i \in 1 .. n + r + 1
               PROVE  log'[i] \in ToSet(log) \cup R \cup {m}
    BY <1>10 DEF ToSet
  <2>1. i \in 1 .. n \/ i \in n + 1 .. n + r \/ i = n + r + 1
    BY <1>0, <1>2
  <2> QED BY <1>0, <1>9, <2>1
<1>12. Everything' \subseteq Everything /\ inbox' = (inbox \ R) \ {m}
  BY <1>1, <1>11 DEF Everything, R
<1>13. \A i, j \in DOMAIN log' : log'[i].id = log'[j].id => i = j
  <2> SUFFICES ASSUME NEW i \in 1 .. n + r + 1, NEW j \in 1 .. n + r + 1, log'[i].id = log'[j].id
               PROVE  i = j
    BY <1>10
  <2>1. /\ i \in 1 .. n \/ i \in n + 1 .. n + r \/ i = n + r + 1
        /\ j \in 1 .. n \/ j \in n + 1 .. n + r \/ j = n + r + 1
    BY <1>0, <1>2
  <2>2. \A o \in ToSet(log), p \in inbox : o.id # p.id
    <3>1. IdsOf(ToSet(log)) \cap IdsOf(inbox) = {}
      BY DEF Content
    <3> QED BY <3>1 DEF IdsOf
  <2>3. \A k \in 1 .. n + r + 1 : k \in 1 .. n => log'[k] \in ToSet(log) /\ log'[k] = log[k]
    BY <1>0, <1>9
  <2>4. \A k \in 1 .. n + r + 1 : k \notin 1 .. n => log'[k] \in inbox
    <3> SUFFICES ASSUME NEW k \in 1 .. n + r + 1, k \notin 1 .. n PROVE log'[k] \in inbox
      OBVIOUS
    <3>1. k \in n + 1 .. n + r \/ k = n + r + 1
      BY <1>0, <1>2
    <3> QED BY <1>1, <1>9, <3>1
  <2>5. CASE i \in 1 .. n
    <3>1. j \in 1 .. n
      BY <2>2, <2>3, <2>4, <2>5
    <3>2. log[i].id = log[j].id
      BY <2>3, <2>5, <3>1
    <3> QED BY <1>0, <2>5, <3>1, <3>2 DEF Content
  <2>6. CASE i \notin 1 .. n
    <3>1. j \notin 1 .. n
      BY <2>2, <2>3, <2>4, <2>6
    <3>2. log'[i] = log'[j]
      BY <2>4, <2>6, <3>1 DEF Content
    <3>3. CASE i = n + r + 1
      BY <1>1, <1>9, <2>1, <3>1, <3>2, <3>3
    <3>4. CASE i \in n + 1 .. n + r
      <4>1. j \in n + 1 .. n + r
        BY <1>1, <1>9, <2>1, <3>1, <3>2, <3>4
      <4>2. i - n = j - n
        <5>1. q[i - n] = q[j - n] /\ i - n \in 1 .. r /\ j - n \in 1 .. r
          BY <1>9, <3>2, <3>4, <4>1
        <5> QED BY <1>3, <5>1
      <4> QED BY <1>0, <1>2, <3>4, <4>1, <4>2
    <3> QED BY <2>1, <2>6, <3>3, <3>4
  <2> QED BY <2>5, <2>6
<1>14. IdsOf(ToSet(log')) \cap IdsOf(inbox') = {}
  <2> SUFFICES ASSUME NEW o \in ToSet(log'), NEW p \in inbox', o.id = p.id PROVE FALSE
    BY DEF IdsOf
  <2>1. p \in inbox /\ p \notin R /\ p # m
    BY <1>12
  <2>2. CASE o \in ToSet(log)
    <3>1. o.id \in IdsOf(ToSet(log)) /\ o.id \in IdsOf(inbox)
      BY <2>1, <2>2 DEF IdsOf
    <3> QED BY <3>1 DEF Content
  <2>3. CASE o \in R \cup {m}
    BY <1>1, <2>1, <2>3 DEF Content
  <2> QED BY <1>11, <2>2, <2>3
<1>15. \A i \in DOMAIN log' : log'[i].kind # "compacting"
  <2>1. \A o \in ToSet(log) : o.kind # "compacting"
    BY DEF Compacting, OfKind
  <2>2. \A i \in DOMAIN log' : log'[i] \in ToSet(log')
    BY DEF ToSet
  <2> QED BY <1>1, <1>11, <2>1, <2>2
<1>16. Content'
  <2>1. inbox' \subseteq inbox
    BY <1>12
  <2>2. \A o \in Everything' : o.id < next'
    BY <1>12 DEF Content, Placed
  <2> QED BY <1>8, <1>13, <1>14, <1>15, <2>1, <2>2 DEF Content, Placed
<1> QED BY <1>0, <1>2, <1>8, <1>9, <1>12, <1>16 DEF R, n

(* Input that is woken up answers for what its request found.              *)
Woken(c, o) == [o EXCEPT !.after = @ \cup call[c].after]

LEMMA DeliveryChanged ==
  ASSUME TypeInv, NEW c \in Clients, ChangeDelivery(c)
  PROVE  /\ Content' /\ UNCHANGED <<log, next>>
         /\ \A m \in inbox' : m \in inbox \/ \E o \in inbox : o.id = call[c].item /\ m = Woken(c, o)
<1>0. Content /\ call[c].after \in SUBSET Ids
  BY Parts, Typed, Fields
<1>1. /\ \A o \in inbox : /\ Woken(c, o) \in Messages /\ Woken(c, o).id = o.id /\ Woken(c, o).kind = o.kind
  BY <1>0 DEF Content, Messages, Woken
<1>2. CASE inbox' = inbox
  <2>1. Content'
    BY <1>0, <1>2, SameContent DEF ChangeDelivery
  <2> QED BY <1>2, <2>1 DEF ChangeDelivery
<1>3. CASE inbox' # inbox
  <2> DEFINE f(m) == IF m.id # call[c].item THEN m ELSE Woken(c, m)
  <2>1. inbox' = {f(m) : m \in inbox}
    BY <1>3 DEF ChangeDelivery, Woken
  <2>2. \A m \in inbox : f(m) \in Messages /\ f(m).id = m.id /\ f(m).kind = m.kind
    BY <1>0, <1>1 DEF Content
  <2>3. \A m \in inbox : m.id = call[c].item \/ f(m) = m
    OBVIOUS
  <2>4. \A m \in inbox : m.id # call[c].item \/ f(m) = Woken(c, m)
    OBVIOUS
  <2> HIDE DEF f
  <2>5. \A m \in inbox' : m \in Messages /\ \E o \in inbox : m.id = o.id /\ m.kind = o.kind
    BY <2>1, <2>2
  <2>6. \A m, o \in inbox' : m.id = o.id => m = o
    <3> SUFFICES ASSUME NEW m \in inbox, NEW o \in inbox, f(m).id = f(o).id PROVE m = o
      BY <2>1
    <3> QED BY <1>0, <2>2 DEF Content
  <2>7. \A m \in inbox' : m \in inbox \/ \E o \in inbox : o.id = call[c].item /\ m = Woken(c, o)
    BY <2>1, <2>3, <2>4
  <2>8. UNCHANGED <<log, next>>
    BY DEF ChangeDelivery
  <2>9. Len(log') <= Len(log) /\ log' \in Seq(Messages)
        /\ (\A i \in 1 .. Len(log') : log'[i] = log[i])
        /\ \A i \in 1 .. Len(log') : log[i].kind = "compacting" => i = Len(log')
    <3>1. Len(log) \in Nat /\ DOMAIN log = 1 .. Len(log) /\ log \in Seq(Messages)
      BY <1>0, LogIs DEF Content
    <3>2. \A i \in 1 .. Len(log) : log[i].kind = "compacting" => i = Len(log)
      BY <1>0, <3>1 DEF Content, Placed
    <3>3. log' = log
      BY <2>8
    <3>4. Len(log') <= Len(log) /\ log' \in Seq(Messages)
      BY <3>1, <3>3
    <3>5. \A i \in 1 .. Len(log') : log'[i] = log[i] /\ (log[i].kind = "compacting" => i = Len(log'))
      BY <3>2, <3>3
    <3> QED BY <3>4, <3>5
  <2> QED BY <1>0, <2>5, <2>6, <2>7, <2>8, <2>9, InboxChanged
<1> QED BY <1>2, <1>3

(* What a commit leaves.                                                   *)
Answered(o, kept) == IF o.kind = "user" THEN [o EXCEPT !.after = @ \ Compactions(kept)] ELSE o

LEMMA Cut ==
  ASSUME TypeInv, NEW c \in Clients, Commit(c)
  PROVE  /\ Content' /\ Len(log) \in Nat /\ UNCHANGED next
         /\ Len(log') < Len(log) /\ log[Len(log') + 1].id = staged
         /\ \A i \in 1 .. Len(log') : i \in 1 .. Len(log) /\ log'[i] = log[i]
         /\ inbox' = {Answered(o, log') : o \in inbox}
         /\ \A o \in inbox : /\ Answered(o, log').id = o.id /\ Answered(o, log').kind = o.kind
                             /\ o.kind = "user" => Answered(o, log').after = o.after \ Compactions(log')
                             /\ Answered(o, log').after \subseteq o.after
                             /\ o.kind = "user" \/ Answered(o, log') = o
<1>0. /\ Content /\ Len(log) \in Nat /\ DOMAIN log = 1 .. Len(log)
      /\ \A i \in 1 .. Len(log) : log[i] \in Messages
  BY Parts, LogIs DEF Content
<1>1. PICK p \in 1 .. Len(log) :
        /\ log[p].id = staged /\ log' = SubSeq(log, 1, p - 1)
        /\ inbox' = {Answered(o, SubSeq(log, 1, p - 1)) : o \in inbox}
  BY <1>0 DEF Commit, Answered
<1>2. /\ log' \in Seq(Messages) /\ Len(log') = p - 1
      /\ \A i \in 1 .. p - 1 : log'[i] = log[i]
  <2>1. 1 \in Int /\ p - 1 \in Int /\ \A i \in 1 .. p - 1 : log[i] \in Messages
    BY <1>0
  <2>2. /\ SubSeq(log, 1, p - 1) \in Seq(Messages)
        /\ Len(SubSeq(log, 1, p - 1)) = IF 1 <= p - 1 THEN p - 1 - 1 + 1 ELSE 0
        /\ \A i \in 1 .. p - 1 - 1 + 1 : SubSeq(log, 1, p - 1)[i] = log[1 + i - 1]
    BY <2>1, SubSeqProperties
  <2> QED BY <1>0, <1>1, <2>2
<1>3. inbox' = {Answered(o, log') : o \in inbox}
  BY <1>1
<1>4. ASSUME NEW o \in inbox
      PROVE  /\ Answered(o, log') \in Messages /\ Answered(o, log').id = o.id /\ Answered(o, log').kind = o.kind
             /\ o.kind = "user" => Answered(o, log').after = o.after \ Compactions(log')
             /\ Answered(o, log').after \subseteq o.after
             /\ o.kind = "user" \/ Answered(o, log') = o
  <2> DEFINE gone == Compactions(log')
  <2>1. o \in Messages /\ o.after \in SUBSET Ids
    BY <1>0 DEF Content, Messages
  <2> HIDE DEF gone
  <2>2. [o EXCEPT !.after = @ \ gone] \in Messages
    BY <2>1 DEF Messages
  <2>3. /\ [o EXCEPT !.after = @ \ gone].after = o.after \ gone /\ [o EXCEPT !.after = @ \ gone].id = o.id
        /\ [o EXCEPT !.after = @ \ gone].kind = o.kind
    BY <2>1 DEF Messages
  <2> QED BY <2>1, <2>2, <2>3 DEF Answered, gone
<1>5. inbox' \subseteq Messages /\ \A m \in inbox' : \E o \in inbox : m.id = o.id /\ m.kind = o.kind
  BY <1>3, <1>4
<1>6. \A m, o \in inbox' : m.id = o.id => m = o
  BY <1>0, <1>3, <1>4 DEF Content
<1>7. UNCHANGED next
  BY DEF Commit
<1>8. /\ Len(log') <= Len(log)
      /\ \A i \in 1 .. Len(log') : log[i].kind # "compacting"
  BY <1>0, <1>2 DEF Content, Placed
<1>9. Content'
  BY <1>0, <1>2, <1>5, <1>6, <1>7, <1>8, InboxChanged
<1>10. Len(log') < Len(log) /\ Len(log') + 1 = p /\ \A i \in 1 .. Len(log') : i \in 1 .. Len(log)
  BY <1>0, <1>2
<1> QED BY <1>0, <1>1, <1>2, <1>3, <1>4, <1>7, <1>9, <1>10

(* Input that appears: of a request, of a command, of another client.      *)
LEMMA NewInput ==
  ASSUME TranscriptAssumption, TypeInv, NEW c \in Clients,
         Inject(c) \/ Admit(c) \/ Compact(c) \/ Command(c) \/ ForeignPrompt
  PROVE  /\ Content' /\ UNCHANGED log /\ next \in Nat /\ next' = next + 1
         /\ \E m \in Messages :
              /\ inbox' = inbox \cup {m} /\ Everything' = Everything \cup {m}
              /\ m.id = next /\ m.kind \in {"user", "restore", "compact"}
              /\ Inject(c) => /\ m.kind = "restore" /\ m.after = call[c].forgotten
                              /\ m.from = call[c].from /\ m.blind = call[c].blind
              /\ ~Inject(c) => m.kind # "restore"
              /\ Admit(c) => m.after = call[c].after
              /\ ~Inject(c) /\ ~Admit(c) => m.after = {}
<1>0. Content /\ call[c] \in Calls /\ next \in Nat /\ call[c].after \in SUBSET Ids /\ call[c].forgotten \in SUBSET Ids
  BY Parts, Typed, Fields DEF Content
<1>1. next \in Ids /\ next <= MaxId /\ next' = next + 1 /\ UNCHANGED log
  <2>1. next <= MaxId /\ next' = next + 1 /\ UNCHANGED log
    BY DEF Inject, Admit, Compact, Command, ForeignPrompt, NewId
  <2>2. next \in 1 .. MaxId + 1 /\ MaxId \in Nat
    BY <1>0 DEF Content, TranscriptAssumption
  <2> QED BY <2>1, <2>2 DEF Ids
<1>2. \A kind \in {"user", "restore", "compact"} :
        /\ Message(kind) \in Messages /\ Message(kind).id = next /\ Message(kind).kind = kind
        /\ Message(kind).after = {}
  BY <1>0, <1>1 DEF Message, Messages, Kinds
<1>3. ASSUME NEW m \in Messages, m.id = next, m.kind \in {"user", "restore", "compact"}, inbox' = inbox \cup {m}
      PROVE  Content' /\ Everything' = Everything \cup {m}
  BY <1>0, <1>1, <1>3, Added
<1>4. CASE Inject(c)
  <2> DEFINE m == [Message("restore") EXCEPT !.after = call[c].forgotten, !.from = call[c].from, !.blind = call[c].blind]
  <2>1. m \in Messages /\ m.id = next /\ m.kind = "restore"
    BY <1>0, <1>1 DEF Message, Messages, Kinds, Calls
  <2>2. m.after = call[c].forgotten /\ m.from = call[c].from /\ m.blind = call[c].blind
    BY DEF Message
  <2>3. inbox' = inbox \cup {m} /\ pc[c] = "inject"
    BY <1>4 DEF Inject, At
  <2>4. ~Admit(c)
    BY <2>3 DEF Admit, At
  <2> HIDE DEF m
  <2> QED BY <1>0, <1>1, <1>3, <1>4, <2>1, <2>2, <2>3, <2>4
<1>5. CASE Admit(c)
  <2> DEFINE m == [Message("user") EXCEPT !.after = call[c].after]
  <2>1. m \in Messages /\ m.id = next /\ m.kind = "user" /\ m.after = call[c].after
    BY <1>0, <1>1 DEF Message, Messages, Kinds
  <2>2. inbox' = inbox \cup {m} /\ pc[c] = "admit"
    BY <1>5 DEF Admit, At
  <2>3. ~Inject(c)
    BY <2>2 DEF Inject, At
  <2> HIDE DEF m
  <2> QED BY <1>0, <1>1, <1>3, <1>5, <2>1, <2>2, <2>3
<1>6. CASE ~Inject(c) /\ ~Admit(c)
  <2>1. PICK kind \in {"user", "compact"} : inbox' = inbox \cup {Message(kind)}
    BY <1>6 DEF Compact, Command, ForeignPrompt
  <2> QED BY <1>0, <1>1, <1>2, <1>3, <1>6, <2>1
<1> QED BY <1>4, <1>5, <1>6

(* A message that joins the transcript without being input: an answer, a   *)
(* compaction that begins.                                                 *)
LEMMA Continues ==
  ASSUME TranscriptAssumption, TypeInv, Answering \/ CompactionBegins
  PROVE  /\ Content' /\ Len(log) \in Nat /\ Len(log') = Len(log) + 1
         /\ \A i \in 1 .. Len(log) : log'[i] = log[i]
         /\ log'[Len(log) + 1].kind \in {"assistant", "compacting"}
         /\ log'[Len(log) + 1].after \in {{}} \cup {m.after : m \in inbox}
         /\ log'[Len(log) + 1].id = next \/ \E o \in inbox : o.id = log'[Len(log) + 1].id /\ o.kind = "compact"
         /\ inbox' \subseteq inbox /\ (\A m \in inbox \ inbox' : m.kind = "compact")
         /\ Everything' \subseteq Everything \cup {log'[Len(log) + 1]}
         /\ next \in Nat /\ next' \in Nat /\ next <= next'
<1>0. Content /\ next \in Nat /\ 1 .. MaxId + 1 # {} /\ \A o \in Everything : o.id \in Nat /\ o.id < next
  <2>1. Content
    BY Parts
  <2> QED BY <2>1, LogIs DEF Content, Placed, Everything, Messages, Ids
<1>1. ASSUME NEW kind \in {"assistant", "compacting"}, NewId, log' = Append(log, Message(kind)), inbox' = inbox, ~Compacting
      PROVE  /\ Content' /\ Len(log) \in Nat /\ Len(log') = Len(log) + 1
             /\ \A i \in 1 .. Len(log) : log'[i] = log[i]
             /\ log'[Len(log) + 1] = Message(kind) /\ Message(kind).kind = kind
             /\ Message(kind).after = {} /\ Message(kind).id = next
             /\ Everything' \subseteq Everything \cup {Message(kind)}
             /\ next' = next + 1
  <2>1. next' = next + 1 /\ next <= MaxId /\ next \in 1 .. MaxId + 1 /\ next \in Ids /\ MaxId \in Nat
    BY <1>0, <1>1 DEF NewId, Content, Ids, TranscriptAssumption
  <2> DEFINE m == Message(kind)
  <2>2. m \in Messages /\ m.id = next /\ m.kind = kind /\ m.after = {}
    BY <1>0, <2>1 DEF Message, Messages, Kinds
  <2>3. next' \in 1 .. MaxId + 1 /\ next <= next' /\ m.id < next'
    BY <1>0, <2>1, <2>2
  <2>4. m.id \notin IdsOf(ToSet(log)) /\ m.id \notin IdsOf(inbox')
    BY <1>0, <1>1, <2>2 DEF IdsOf, Everything
  <2>5. log' = Append(log, m)
    BY <1>1
  <2> HIDE DEF m
  <2>6. /\ Content' /\ Len(log) \in Nat /\ Len(log') = Len(log) + 1
        /\ \A i \in 1 .. Len(log) : log'[i] = log[i]
        /\ log'[Len(log) + 1] = m
        /\ Everything' \subseteq Everything \cup {m}
    BY <1>0, <1>1, <2>2, <2>3, <2>4, <2>5, Appended
  <2> QED BY <2>1, <2>2, <2>6 DEF m
<1>2. CASE Answering
  BY <1>0, <1>1, <1>2 DEF Answering
<1>3. CASE CompactionBegins /\ running
  BY <1>0, <1>1, <1>3 DEF CompactionBegins
<1>4. CASE CompactionBegins /\ ~running
  <2>1. PICK o \in OfKind(inbox, "compact") : log' = Append(log, [o EXCEPT !.kind = "compacting"]) /\ inbox' = inbox \ {o}
    BY <1>4 DEF CompactionBegins
  <2>2. next' = next /\ ~Compacting
    BY <1>4 DEF CompactionBegins
  <2> DEFINE m == [o EXCEPT !.kind = "compacting"]
  <2>3. o \in inbox /\ o.kind = "compact" /\ o \in Messages
    BY <1>0 DEF OfKind, Content
  <2>4. m \in Messages /\ m.id = o.id /\ m.kind = "compacting" /\ m.after = o.after
    BY <2>3 DEF Messages, Kinds
  <2>5. log' = Append(log, m)
    BY <2>1
  <2> HIDE DEF m
  <2>6. m.id < next' /\ next <= next' /\ next' \in 1 .. MaxId + 1
    BY <1>0, <2>2, <2>3, <2>4 DEF Everything, Content
  <2>7. m.id \notin IdsOf(ToSet(log)) /\ m.id \notin IdsOf(inbox')
    <3>1. o.id \in IdsOf(inbox)
      BY <2>3 DEF IdsOf
    <3>2. \A x \in inbox' : x \in inbox /\ x # o
      BY <2>1
    <3>3. \A x \in inbox' : x.id # o.id
      BY <1>0, <2>3, <3>2 DEF Content
    <3> QED BY <1>0, <2>4, <3>1, <3>3 DEF IdsOf, Content
  <2>8. /\ Content' /\ Len(log) \in Nat /\ Len(log') = Len(log) + 1
        /\ \A i \in 1 .. Len(log) : log'[i] = log[i]
        /\ log'[Len(log) + 1] = m
        /\ Everything' \subseteq Everything \cup {m}
    BY <1>0, <2>1, <2>2, <2>4, <2>5, <2>6, <2>7, Appended
  <2>9. m.after \in {x.after : x \in inbox} /\ inbox' \subseteq inbox /\ \A x \in inbox \ inbox' : x.kind = "compact"
    BY <2>1, <2>3, <2>4
  <2> QED BY <1>0, <2>2, <2>3, <2>4, <2>8, <2>9
<1> QED BY <1>2, <1>3, <1>4

(* The steps that leave the requests alone.                                *)
Plain(c) == Cancel(c) \/ Command(c) \/ Interrupt(c) \/ Service

LEMMA PlainRest ==
  ASSUME TranscriptAssumption, TypeInv, NEW c \in Clients, Plain(c)
  PROVE  UNCHANGED <<pc, call, history>> /\ Rest'
<1>1. UNCHANGED <<pc, call, history>>
  BY DEF Plain, Cancel, Command, Interrupt, Service, Land, Answering, TurnEnds, CompactionBegins, CompactionEnds,
         ForeignPrompt, Outside
<1>2. Rest
  BY Parts
<1>3. UNCHANGED staged
  BY DEF Plain, Cancel, Command, Interrupt, Service, Land, Answering, TurnEnds, CompactionBegins, CompactionEnds,
         ForeignPrompt, Outside
<1>4. faults' = faults /\ calls' \in 0 .. MaxCalls
  <2>1. CASE Service
    <3>1. calls' = calls /\ faults' = faults
      BY <2>1 DEF Service, Land, Answering, TurnEnds, CompactionBegins, CompactionEnds, ForeignPrompt, Outside
    <3> QED BY <1>2, <3>1 DEF Rest
  <2>2. CASE Cancel(c) \/ Command(c) \/ Interrupt(c)
    <3>1. calls < MaxCalls /\ calls' = calls + 1 /\ faults' = faults
      BY <2>2 DEF Cancel, Command, Interrupt
    <3> QED BY <1>2, <3>1 DEF Rest, TranscriptAssumption
  <2> QED BY <2>1, <2>2 DEF Plain
<1>5. queued' \subseteq queued
  BY DEF Plain, Cancel, Command, Interrupt, Service, Land, Answering, TurnEnds, CompactionBegins, CompactionEnds,
         ForeignPrompt
<1>6. running' \in {running, TRUE, FALSE}
  BY DEF Plain, Cancel, Command, Interrupt, Service, Land, Answering, TurnEnds, CompactionBegins, CompactionEnds,
         ForeignPrompt
<1>7. stale' = stale \/ Touch
  BY DEF Plain, Cancel, Command, Interrupt, Service, Land, Answering, TurnEnds, CompactionBegins, CompactionEnds,
         ForeignPrompt
<1>8. stale' \subseteq Clients
  BY <1>2, <1>7 DEF Rest, Touch
<1> QED BY <1>1, <1>2, <1>3, <1>4, <1>5, <1>6, <1>8 DEF Rest, history

LEMMA StillRequests ==
  ASSUME TypeInv, UNCHANGED <<pc, call>>, next' \in Nat, next <= next'
  PROVE  Requests'
<1>1. pc \in [Clients -> Labels] /\ call \in [Clients -> Calls] /\ next \in Nat
  BY DEF TypeInv, TypeOK
<1>2. ASSUME NEW d \in Clients PROVE Knows(d)'
  <2>1. KnowsOf(pc[d], call[d]) /\ call[d] \in Calls
    BY <1>1 DEF TypeInv, Knows
  <2>2. call[d].from <= next'
    BY <1>1, <2>1 DEF KnowsOf, Calls
  <2> QED BY <2>1, <2>2 DEF Knows, KnowsOf
<1> QED BY <1>1, <1>2 DEF Requests

LEMMA PlainType ==
  ASSUME TranscriptAssumption, TypeInv, NEW c \in Clients, Plain(c)
  PROVE  TypeInv'
<1>0. Content /\ next \in Nat /\ TypeOK
  BY Parts, Typed DEF TypeInv
<1>1. CASE Command(c) \/ ForeignPrompt
  <2>1. Content' /\ next' = next + 1
    BY <1>1, NewInput
  <2>2. Requests'
    BY <1>0, <2>1, PlainRest, StillRequests
  <2> QED BY <2>1, <2>2, PlainRest, PartsAfter
<1>2. CASE Answering \/ CompactionBegins
  <2>1. Content' /\ next' \in Nat /\ next <= next'
    BY <1>2, Continues
  <2>2. Requests'
    BY <2>1, PlainRest, StillRequests
  <2> QED BY <2>1, <2>2, PlainRest, PartsAfter
<1>3. ASSUME Content', UNCHANGED next PROVE TypeInv'
  <2>1. Requests'
    BY <1>0, <1>3, PlainRest, StillRequests
  <2> QED BY <1>3, <2>1, PlainRest, PartsAfter
<1>4. CASE Cancel(c)
  <2>1. UNCHANGED <<log, next>> /\ inbox' \subseteq inbox
    BY <1>4 DEF Cancel
  <2> QED BY <1>0, <1>3, <2>1, InboxTaken
<1>5. CASE Interrupt(c)
  BY <1>0, <1>3, <1>5, Relabelled DEF Interrupt
<1>6. CASE CompactionEnds
  BY <1>0, <1>3, <1>6, Relabelled DEF CompactionEnds
<1>7. CASE TurnEnds
  BY <1>0, <1>3, <1>7, SameContent DEF TurnEnds
<1>8. CASE Land
  <2>1. PICK m \in inbox : /\ Ready(m) /\ ~Compacting
                           /\ log' = log \o InOrder(OfKind(inbox, "restore")) \o <<m>>
                           /\ inbox' = (inbox \ OfKind(inbox, "restore")) \ {m} /\ UNCHANGED next
    BY <1>8 DEF Land
  <2>2. m.kind = "user"
    BY <2>1 DEF Ready
  <2>3. Content'
    BY <1>0, <2>1, <2>2, Landed
  <2> QED BY <1>3, <2>1, <2>3
<1> QED BY <1>1, <1>2, <1>4, <1>5, <1>6, <1>7, <1>8 DEF Plain, Service

LEMMA AdmitsType ==
  ASSUME TranscriptAssumption, TypeInv, NEW c \in Clients, Admits(c)
  PROVE  TypeInv'
<1>0. /\ Content /\ Rest /\ next \in Nat /\ pc \in [Clients -> Labels] /\ call \in [Clients -> Calls]
      /\ KnowsOf(pc[c], call[c]) /\ call[c] \in Calls
  BY Parts, Typed
<1>1. Content' /\ next' = next + 1
  BY NewInput DEF Admits
<1>2. \E label, request : Moves(c, label, request) /\ KnowsOf(label, request)
  <2>1. CASE Inject(c)
    <3>1. pc' = [pc EXCEPT ![c] = "admit"] /\ call' = [call EXCEPT ![c] = call[c]] /\ pc[c] = "inject"
      BY <1>0, <2>1 DEF Inject, At, Goto
    <3>2. Moves(c, "admit", call[c]) /\ KnowsOf("admit", call[c])
      BY <1>0, <3>1 DEF Moves, KnowsOf, Labels
    <3> QED BY <3>2
  <2>2. CASE Admit(c) \/ Compact(c)
    BY <2>2, AnswerMoves DEF Admit, Compact
  <2> QED BY <2>1, <2>2 DEF Admits
<1>3. Requests'
  BY <1>0, <1>1, <1>2, MovesRequests
<1>4. Rest'
  <2>1. /\ queued' \subseteq queued \cup {next} /\ raced' \subseteq raced
        /\ UNCHANGED <<running, staged, stale, calls, faults, commits>>
    BY DEF Admits, Inject, Admit, Compact, Answer, history
  <2>2. next \in Ids
    <3>1. next <= MaxId /\ next \in 1 .. MaxId + 1 /\ MaxId \in Nat
      BY <1>0 DEF Admits, Inject, Admit, Compact, NewId, Content, TranscriptAssumption
    <3> QED BY <3>1 DEF Ids
  <2> QED BY <1>0, <2>1, <2>2 DEF Rest
<1> QED BY <1>1, <1>3, <1>4, PartsAfter

LEMMA DeliveryType ==
  ASSUME TranscriptAssumption, TypeInv, NEW c \in Clients, ChangeDelivery(c)
  PROVE  TypeInv'
<1>0. Content /\ Rest /\ next \in Nat /\ inbox \subseteq Messages
  BY Parts, Typed DEF Content
<1>1. Content' /\ UNCHANGED next
  BY DeliveryChanged
<1>2. Requests'
  BY <1>0, <1>1, AnswerMoves, MovesRequests DEF ChangeDelivery
<1>3. Rest'
  <2>1. UNCHANGED <<running, staged, stale, calls, faults, commits>> /\ raced' \subseteq raced
    BY DEF ChangeDelivery, Answer
  <2>2. queued' \subseteq queued \cup IdsOf(inbox)
    BY DEF ChangeDelivery
  <2>3. IdsOf(inbox) \subseteq Ids
    BY <1>0 DEF IdsOf, Messages
  <2> QED BY <1>0, <2>1, <2>2, <2>3 DEF Rest
<1> QED BY <1>1, <1>2, <1>3, PartsAfter

LEMMA CommitType ==
  ASSUME TranscriptAssumption, TypeInv, NEW c \in Clients, Commit(c)
  PROVE  /\ TypeInv'
         /\ pc' = [pc EXCEPT ![c] = "idle"] /\ call'[c] = NoCall
         /\ \A d \in Clients \ {c} : call'[d] = [call[d] EXCEPT !.after = @ \ Compactions(log')]
<1>0. /\ Content /\ Rest /\ next \in Nat /\ pc \in [Clients -> Labels] /\ call \in [Clients -> Calls]
      /\ KnowsOf(pc[c], call[c]) /\ call[c] \in Calls /\ Len(log) \in Nat /\ DOMAIN log = 1 .. Len(log)
      /\ NoCall \in Calls /\ KnowsOf("idle", NoCall)
  BY Parts, Typed, LogIs, NoCallIsIdle DEF Content
<1>1. Content' /\ UNCHANGED next
  BY Cut
<1>2. call' = [d \in Clients |-> IF d = c THEN NoCall ELSE [call[d] EXCEPT !.after = @ \ Compactions(log')]]
  BY DEF Commit
<1>3. pc' = [pc EXCEPT ![c] = "idle"]
  BY DEF Commit, Goto
<1>4. Requests'
  <2> DEFINE gone == Compactions(log')
  <2>1. ASSUME NEW d \in Clients \ {c}
        PROVE  /\ call'[d] \in Calls /\ call'[d].op = call[d].op /\ call'[d].target = call[d].target
               /\ call'[d].after \subseteq call[d].after /\ call'[d].from = call[d].from /\ pc'[d] = pc[d]
               /\ pc[d] # "idle" \/ call'[d] = call[d]
    <3>1. call[d] \in Calls /\ Knows(d)
      BY <1>0 DEF TypeInv
    <3>2. call'[d] = [call[d] EXCEPT !.after = @ \ gone]
      BY <1>2
    <3> HIDE DEF gone
    <3>3. /\ call'[d] \in Calls /\ call'[d].op = call[d].op /\ call'[d].target = call[d].target
          /\ call'[d].after = call[d].after \ gone /\ call'[d].from = call[d].from
      BY <3>1, <3>2 DEF Calls
    <3>4. pc'[d] = pc[d]
      BY <1>0, <1>3
    <3>5. pc[d] # "idle" \/ call'[d] = call[d]
      <4> SUFFICES ASSUME pc[d] = "idle" PROVE call'[d] = call[d]
        OBVIOUS
      <4>1. call[d] = NoCall
        BY <3>1 DEF Knows, KnowsOf
      <4>2. call[d].after \ gone = {} /\ call[d].after = {}
        BY <4>1 DEF NoCall
      <4>3. [call[d] EXCEPT !.after = {}] = call[d]
        BY <3>1, <4>2 DEF Calls
      <4> QED BY <3>2, <4>2, <4>3
    <3> QED BY <3>3, <3>4, <3>5
  <2>2. ASSUME NEW d \in Clients \ {c} PROVE Knows(d)'
    <3>1. KnowsOf(pc[d], call[d])
      BY DEF TypeInv, Knows
    <3> QED BY <1>1, <2>1, <3>1 DEF Knows, KnowsOf
  <2>3. Knows(c)'
    <3>1. pc'[c] = "idle" /\ call'[c] = NoCall
      BY <1>0, <1>2, <1>3
    <3>2. NoCall.from <= next'
      BY <1>0, <1>1 DEF NoCall
    <3> QED BY <1>0, <3>1, <3>2 DEF Knows, KnowsOf
  <2>4. pc' \in [Clients -> Labels]
    BY <1>0, <1>3 DEF Labels
  <2>5. call' \in [Clients -> Calls]
    BY <1>0, <1>2, <2>1
  <2> QED BY <2>2, <2>3, <2>4, <2>5 DEF Requests
<1>5. Rest'
  <2>1. call[c].op \in Reverts
    BY <1>0 DEF Commit, At, KnowsOf, Reverts
  <2>2. call[c].target \in Ids /\ call[c].unseen \in SUBSET Ids
    BY <1>0, <2>1 DEF KnowsOf, Calls
  <2>3. PICK p \in 1 .. Len(log) :
          LET gone == {log[i].id : i \in p .. Len(log)}
          IN  log[p].id = staged
              /\ commits' = commits \cup {[asked |-> call[c].target, did |-> staged, raced |-> c \in raced,
                                           lost |-> gone \cap call[c].unseen]}
    BY <1>0 DEF Commit
  <2>4. log[p].id \in Ids
    BY <1>0, LogIs DEF Content, Messages
  <2>5. commits' \subseteq [asked : Ids, did : Ids, raced : BOOLEAN, lost : SUBSET Ids]
    <3> DEFINE lost == {log[i].id : i \in p .. Len(log)} \cap call[c].unseen
               entry == [asked |-> call[c].target, did |-> staged, raced |-> c \in raced, lost |-> lost]
    <3>1. lost \in SUBSET Ids /\ (c \in raced) \in BOOLEAN /\ staged \in Ids
      BY <2>2, <2>3, <2>4
    <3> HIDE DEF lost
    <3>2. entry \in [asked : Ids, did : Ids, raced : BOOLEAN, lost : SUBSET Ids]
      BY <2>2, <3>1
    <3>3. commits' = commits \cup {entry}
      BY <2>3 DEF lost
    <3> HIDE DEF entry
    <3> QED BY <1>0, <3>2, <3>3 DEF Rest
  <2>6. staged' = 0 /\ stale' \subseteq Clients /\ raced' \subseteq Clients /\ UNCHANGED <<queued, running, calls, faults>>
    BY <1>0 DEF Commit, Touch, PastLook, Rest
  <2> QED BY <1>0, <2>5, <2>6 DEF Rest
<1>6. call'[c] = NoCall /\ \A d \in Clients \ {c} : call'[d] = [call[d] EXCEPT !.after = @ \ Compactions(log')]
  BY <1>2
<1> QED BY <1>1, <1>3, <1>4, <1>5, <1>6, PartsAfter

Step(c) ==
  \/ Looks(c) \/ Restages(c) \/ Admits(c) \/ ChangeDelivery(c) \/ Commit(c) \/ Plain(c)

LEMMA Steps ==
  ASSUME TranscriptAssumption, [Next]_vars
  PROVE  UNCHANGED vars \/ \E c \in Clients : Step(c)
BY DEF Next, Step, Looks, Restages, Admits, Plain, TranscriptAssumption

LEMMA TypeKept ==
  ASSUME TranscriptAssumption, TypeInv, NEW c \in Clients, Step(c)
  PROVE  TypeInv'
BY LooksType, RestagesType, AdmitsType, DeliveryType, CommitType, PlainType DEF Step

LEMMA TypeInit ==
  ASSUME TranscriptAssumption, Init
  PROVE  TypeInv
<1> DEFINE m == [Message("user") EXCEPT !.id = 1]
<1>1. next = 2 /\ MaxId \in Nat /\ 1 \in Ids
  BY DEF Init, TranscriptAssumption, Ids
<1>2. m \in Messages /\ m.id = 1 /\ m.kind = "user"
  BY <1>1 DEF Message, Messages, Kinds
<1>3. log = <<m>> /\ inbox = {}
  BY DEF Init
<1> HIDE DEF m
<1>4. /\ log \in Seq(Messages) /\ Len(log) = 1 /\ log[1] = m /\ DOMAIN log = 1 .. 1
  BY <1>2, <1>3
<1>5. ToSet(log) = {m}
  BY <1>4 DEF ToSet
<1>6. Content
  <2>1. IdsOf(inbox) = {}
    BY <1>3 DEF IdsOf
  <2>2. Everything = {m}
    BY <1>3, <1>5 DEF Everything
  <2>3. next \in 1 .. MaxId + 1
    BY <1>1 DEF TranscriptAssumption, Ids
  <2> QED BY <1>1, <1>2, <1>3, <1>4, <2>1, <2>2, <2>3 DEF Content, Placed
<1>7. Requests
  <2>1. KnowsOf("idle", NoCall) /\ NoCall \in Calls
    <3>1. NoCall.op \notin {"send", "resume"} \cup Reverts
      BY DEF TranscriptAssumption, NoCall, Reverts
    <3>2. NoCall.after = {} /\ NoCall.from = 0
      BY DEF NoCall
    <3> QED BY <1>1, <3>1, <3>2, NoCallType DEF KnowsOf
  <2>2. pc = [c \in Clients |-> "idle"] /\ call = [c \in Clients |-> NoCall]
    BY DEF Init
  <2> QED BY <2>1, <2>2 DEF Requests, Knows, Labels
<1>8. Rest
  <2>1. calls = 0 /\ faults = 0 /\ calls \in 0 .. MaxCalls /\ faults \in 0 .. MaxFaults
    BY DEF Init, TranscriptAssumption
  <2>2. queued = {} /\ running = FALSE /\ staged = 0 /\ stale = {} /\ raced = {} /\ commits = {}
    BY DEF Init
  <2> QED BY <2>1, <2>2 DEF Rest
<1> QED BY <1>6, <1>7, <1>8, Parts

(* What a look leaves a request to carry, seen from the state before.      *)
CarriesAfter(c) ==
  \/ call'[c].after = {}
  \/ call'[c].after = call[c].after /\ pc[c] # "inject"
  \/ call'[c].after = Compactions(log) /\ OfKind(inbox, "restore") # {}
  \/ call'[c].after = Compactions(NewestPage) /\ (pc'[c] # "inject" => Forgotten(NewestPage) = {})
CarriesForgotten(c) == call'[c].forgotten \in {{}, call[c].forgotten, Forgotten(NewestPage)}
CarriesItem(c) == call'[c].op = "resume" =>
  \/ call[c].op = "resume" /\ call'[c].item = call[c].item
  \/ \E m \in inbox : m.kind # "restore" /\ call'[c].item = m.id
CarriesOn(c) ==
  /\ pc'[c] = "transcript" /\ ~call'[c].blind => OfKind(inbox, "restore") = {}
  /\ pc'[c] = "inject" => /\ pc[c] = "transcript" /\ Forgotten(NewestPage) # {}
                          /\ call'[c].forgotten = Forgotten(NewestPage)
                          /\ call'[c].blind = call[c].blind /\ call'[c].from = call[c].from
Carries(c) == CarriesAfter(c) /\ CarriesForgotten(c) /\ CarriesItem(c) /\ CarriesOn(c)

LEMMA FieldsLeft ==
  ASSUME NEW r \in Calls, NEW ids \in SUBSET Ids, NEW more \in SUBSET Ids
  PROVE  /\ \A q \in {[r EXCEPT !.blind = TRUE], [r EXCEPT !.after = ids], [r EXCEPT !.after = ids, !.forgotten = more],
                      [r EXCEPT !.shown = {}, !.unseen = ids]} :
              q.op = r.op /\ q.item = r.item /\ q.from = r.from
         /\ LET q == [r EXCEPT !.blind = TRUE] IN q.after = r.after /\ q.forgotten = r.forgotten /\ q.blind
         /\ LET q == [r EXCEPT !.after = ids] IN q.after = ids /\ q.forgotten = r.forgotten
         /\ LET q == [r EXCEPT !.after = ids, !.forgotten = more] IN
              q.after = ids /\ q.forgotten = more /\ q.blind = r.blind
         /\ LET q == [r EXCEPT !.shown = {}, !.unseen = ids] IN q.after = r.after /\ q.forgotten = r.forgotten
BY DEF Calls

LEMMA LooksCarry ==
  ASSUME TranscriptAssumption, TypeInv, NEW c \in Clients, Looks(c)
  PROVE  /\ Carries(c)
         /\ \A d \in Clients \ {c} : pc'[d] = pc[d] /\ call'[d] = call[d]
<1>0. pc \in [Clients -> Labels] /\ call \in [Clients -> Calls] /\ call[c] \in Calls
  BY Typed
<1> SUFFICES Carries(c)
  BY <1>0, LooksMove DEF Moves
<1>1. NoCall.after = {} /\ NoCall.forgotten = {} /\ NoCall.op # "resume"
  BY DEF NoCall, TranscriptAssumption
<1>2. ASSUME call' = [call EXCEPT ![c] = NoCall], pc' = [pc EXCEPT ![c] = "idle"]
      PROVE  Carries(c)
  BY <1>0, <1>1, <1>2 DEF Carries, CarriesAfter, CarriesForgotten, CarriesItem, CarriesOn
<1>3. ASSUME NEW label \in {"act", "commit"}, pc' = [pc EXCEPT ![c] = label], call' = call, pc[c] # "inject"
      PROVE  Carries(c)
  BY <1>0, <1>3 DEF Carries, CarriesAfter, CarriesForgotten, CarriesItem, CarriesOn
<1>4. CASE Send(c)
  <2> DEFINE r == [NoCall EXCEPT !.op = "send", !.from = next]
  <2>1. r.after = {} /\ r.forgotten = {} /\ r.op # "resume"
    BY DEF NoCall
  <2>2. call'[c] = r /\ pc'[c] = "inbox"
    BY <1>0, <1>4 DEF Send, Begin, Goto, With
  <2> HIDE DEF r
  <2> QED BY <2>1, <2>2 DEF Carries, CarriesAfter, CarriesForgotten, CarriesItem, CarriesOn
<1>5. CASE Resume(c)
  <2>1. PICK m \in inbox, d \in {"queue", "steer"} :
          /\ m.kind # "restore"
          /\ Begin(c, IF d = "steer" THEN "inbox" ELSE "admit",
                   [NoCall EXCEPT !.op = "resume", !.item = m.id, !.delivery = d, !.from = next])
    BY <1>5 DEF Resume
  <2> DEFINE r == [NoCall EXCEPT !.op = "resume", !.item = m.id, !.delivery = d, !.from = next]
  <2>2. r.after = {} /\ r.forgotten = {} /\ r.item = m.id
    BY DEF NoCall
  <2>3. call'[c] = r /\ pc'[c] \in {"inbox", "admit"}
    BY <1>0, <2>1 DEF Begin, Goto, With
  <2> HIDE DEF r
  <2> QED BY <2>1, <2>2, <2>3 DEF Carries, CarriesAfter, CarriesForgotten, CarriesItem, CarriesOn
<1>6. CASE AskCompact(c) \/ AskRevert(c) \/ AskFinal(c)
  <2>1. PICK op \in {"compact", "revert", "stage", "commit", "clear"}, target \in {0, staged} \cup IdsOf(OfKind(ToSet(log), "user")) :
          Confirm(c, op, target)
    BY <1>6 DEF AskCompact, AskRevert, AskFinal
  <2> DEFINE shown == IF op \in {"revert", "commit"} THEN IdsOf(ToSet(log)) ELSE {}
             r == [NoCall EXCEPT !.op = op, !.target = target, !.shown = shown]
  <2>2. call'[c] = r /\ pc'[c] = "guard"
    BY <1>0, <2>1 DEF Confirm, Begin, Goto, With
  <2> HIDE DEF shown
  <2>3. r.after = {} /\ r.forgotten = {} /\ r.op # "resume"
    BY DEF NoCall
  <2> HIDE DEF r
  <2> QED BY <2>2, <2>3 DEF Carries, CarriesAfter, CarriesForgotten, CarriesItem, CarriesOn
<1>9. {} \in SUBSET Ids /\ Compactions(log) \in SUBSET Ids /\ Compactions(NewestPage) \in SUBSET Ids
      /\ Forgotten(NewestPage) \in SUBSET Ids
  BY PageIds, IdsOfLog DEF TypeInv
<1>10. CASE FailOpen(c)
  <2> DEFINE r == [call[c] EXCEPT !.after = {}]
  <2>1. call'[c] = r /\ pc'[c] = "admit"
    BY <1>0, <1>10 DEF FailOpen, Goto, With
  <2>2. r.op = call[c].op /\ r.item = call[c].item /\ r.after = {} /\ r.forgotten = call[c].forgotten
    BY <1>0, <1>9, FieldsLeft
  <2> HIDE DEF r
  <2> QED BY <2>1, <2>2 DEF Carries, CarriesAfter, CarriesForgotten, CarriesItem, CarriesOn
<1>11. CASE CheckInbox(c) /\ OfKind(inbox, "restore") # {}
  <2> DEFINE r == [call[c] EXCEPT !.after = Compactions(log)]
  <2>1. call'[c] = r /\ pc'[c] = "admit"
    BY <1>0, <1>11 DEF CheckInbox, Goto, With
  <2>2. r.op = call[c].op /\ r.item = call[c].item /\ r.after = Compactions(log) /\ r.forgotten = call[c].forgotten
    BY <1>0, <1>9, FieldsLeft
  <2> HIDE DEF r
  <2> QED BY <1>11, <2>1, <2>2 DEF Carries, CarriesAfter, CarriesForgotten, CarriesItem, CarriesOn
<1>12. CASE CheckInbox(c) /\ OfKind(inbox, "restore") = {}
  <2>1. call' = call /\ pc'[c] = "transcript" /\ pc[c] = "inbox"
    BY <1>0, <1>12 DEF CheckInbox, Goto, At
  <2> QED BY <1>12, <2>1 DEF Carries, CarriesAfter, CarriesForgotten, CarriesItem, CarriesOn
<1>13. CASE InboxUnread(c)
  <2> DEFINE r == [call[c] EXCEPT !.blind = TRUE]
  <2>1. call'[c] = r /\ pc'[c] = "transcript" /\ pc[c] = "inbox"
    BY <1>0, <1>13 DEF InboxUnread, Goto, With, At
  <2>2. r.op = call[c].op /\ r.item = call[c].item /\ r.after = call[c].after /\ r.forgotten = call[c].forgotten /\ r.blind
    BY <1>0, <1>9, FieldsLeft
  <2> HIDE DEF r
  <2> QED BY <2>1, <2>2 DEF Carries, CarriesAfter, CarriesForgotten, CarriesItem, CarriesOn
<1>14. CASE ReadTranscript(c)
  <2> DEFINE r == [call[c] EXCEPT !.after = Compactions(NewestPage), !.forgotten = Forgotten(NewestPage)]
  <2>1. /\ call'[c] = r /\ pc[c] = "transcript"
        /\ pc'[c] = IF Forgotten(NewestPage) # {} THEN "inject" ELSE "admit"
    BY <1>0, <1>14 DEF ReadTranscript, Goto, With, At
  <2>2. /\ r.op = call[c].op /\ r.item = call[c].item /\ r.from = call[c].from
        /\ r.after = Compactions(NewestPage) /\ r.forgotten = Forgotten(NewestPage)
        /\ r.blind = call[c].blind
    BY <1>0, <1>9, FieldsLeft
  <2> HIDE DEF r
  <2> QED BY <2>1, <2>2 DEF Carries, CarriesAfter, CarriesForgotten, CarriesItem, CarriesOn
<1>15. CASE Guard(c) /\ Confirmed(c) /\ ~Refuse(c)
  <2> DEFINE unseen == IF call[c].shown = {} THEN {} ELSE IdsOf(ToSet(log)) \ call[c].shown
             r == [call[c] EXCEPT !.shown = {}, !.unseen = unseen]
  <2>1. /\ pc[c] = "guard" /\ pc' = [pc EXCEPT ![c] = "busy"]
        /\ call' = [call EXCEPT ![c] = r]
    BY <1>15 DEF Guard, Goto, With, At
  <2> HIDE DEF unseen
  <2>2. r.op = call[c].op /\ r.item = call[c].item /\ r.after = call[c].after /\ r.forgotten = call[c].forgotten
    BY <1>0 DEF Calls
  <2> HIDE DEF r
  <2>3. call'[c] = r /\ pc'[c] = "busy" /\ pc[c] = "guard"
    BY <1>0, <2>1
  <2> QED BY <2>2, <2>3 DEF Carries, CarriesAfter, CarriesForgotten, CarriesItem, CarriesOn
<1>16. CASE Refuse(c) \/ AdmitFails(c)
  BY <1>2, <1>16 DEF Refuse, AdmitFails, Answer, Goto, With
<1>17. CASE (LookIdle(c) \/ Reread(c)) /\ ~Refuse(c)
  BY <1>3, <1>17 DEF LookIdle, Reread, Goto, At
<1> QED
  BY <1>4, <1>5, <1>6, <1>10, <1>11, <1>12, <1>13, <1>14, <1>15, <1>16, <1>17 DEF Looks, Guard, Refused

LEMMA Drops ==
  ASSUME TypeInv, NEW c \in Clients, Restages(c) \/ Admits(c) \/ ChangeDelivery(c)
  PROVE  /\ \/ call'[c] = NoCall /\ pc'[c] = "idle"
            \/ call'[c] = call[c] /\ pc'[c] \in {"reread", "admit"}
         /\ pc'[c] = "admit" => Inject(c)
         /\ \A d \in Clients \ {c} : call'[d] = call[d] /\ pc'[d] = pc[d]
<1>1. pc \in [Clients -> Labels] /\ call \in [Clients -> Calls]
  BY Typed
<1>3. CASE Answer(c) \/ Clear(c) \/ (Stage(c) /\ call[c].op # "revert")
  <2>1. pc' = [pc EXCEPT ![c] = "idle"] /\ call' = [call EXCEPT ![c] = NoCall]
    BY <1>3 DEF Answer, Stage, Clear, Goto, With
  <2>2. pc'[c] = "idle" /\ call'[c] = NoCall /\ \A d \in Clients \ {c} : call'[d] = call[d] /\ pc'[d] = pc[d]
    BY <1>1, <2>1
  <2> QED BY <2>2
<1>5. CASE Stage(c) /\ call[c].op = "revert"
  <2>1. pc' = [pc EXCEPT ![c] = "reread"] /\ call' = call
    BY <1>5 DEF Stage, Goto
  <2> QED BY <1>1, <2>1
<1>6. CASE Inject(c)
  <2>1. pc' = [pc EXCEPT ![c] = "admit"] /\ call' = call
    BY <1>6 DEF Inject, Goto
  <2> QED BY <1>1, <1>6, <2>1
<1> QED BY <1>3, <1>5, <1>6 DEF Restages, Admits, Admit, Compact, ChangeDelivery

-----------------------------------------------------------------------------
(* What is answered for is a compaction of the past.                       *)

LEMMA CompactionsFit ==
  ASSUME TypeInv, NEW k \in Compactions(log)
  PROVE  k \in Ids /\ ~Unfit(k)
<1>0. Content /\ next \in Nat
  BY Parts DEF Content
<1>1. PICK q \in ToSet(log) : q.id = k /\ q.kind = "compaction"
  <2>1. PICK q \in OfKind(ToSet(log), "compaction") : q.id = k
    BY DEF Compactions, IdsOf
  <2> QED BY <2>1 DEF OfKind
<1>2. k \in Ids /\ k < next
  <2>1. q \in Messages /\ q \in Everything
    BY <1>0, LogIs DEF Content, Everything
  <2> QED BY <1>0, <1>1, <2>1 DEF Content, Placed, Messages
<1>3. ASSUME NEW m \in Everything, m.id = k PROVE m.kind = "compaction"
  <2>1. CASE m \in inbox
    BY <1>0, <1>1, <1>3, <2>1 DEF Content, IdsOf
  <2>2. CASE m \in ToSet(log)
    <3>1. PICK i \in 1 .. Len(log), j \in 1 .. Len(log) : m = log[i] /\ q = log[j]
      BY <1>0, <2>2, LogIs DEF Content
    <3>2. i = j
      BY <1>0, <1>1, <1>3, <3>1, LogIs DEF Content
    <3> QED BY <1>1, <3>1, <3>2
  <2> QED BY <2>1, <2>2 DEF Everything
<1>4. ~(k >= next)
  BY <1>0, <1>2 DEF Ids
<1> QED BY <1>2, <1>3, <1>4 DEF Unfit

LEMMA ClaimsStay ==
  ASSUME TypeInv, ClaimsInv, next' \in Nat, next <= next',
         \A m \in Everything' :
           /\ m.id >= next \/ \E o \in Everything : o.id = m.id /\ (o.kind = "compaction" => m.kind = "compaction")
           /\ \A k \in m.after : Claimed(k),
         \A d \in Clients : \A k \in call'[d].after \cup call'[d].forgotten : Claimed(k) \/ k \in Compactions(log)
  PROVE  ClaimsInv'
<1> SUFFICES ASSUME NEW k \in Ids, Claimed(k)', Unfit(k)' PROVE FALSE
  BY DEF ClaimsInv
<1>0. next \in Nat /\ k \in Nat
  BY DEF Ids, TypeInv, TypeOK
<1>1. Claimed(k) \/ k \in Compactions(log)
  BY DEF Claimed
<1>2. ~Unfit(k)
  BY <1>1, CompactionsFit DEF ClaimsInv
<1>3. CASE k >= next'
  BY <1>0, <1>2, <1>3 DEF Unfit
<1>4. CASE \E m \in Everything' : m.id = k /\ m.kind # "compaction"
  BY <1>2, <1>4 DEF Unfit
<1> QED BY <1>3, <1>4 DEF Unfit

LEMMA ClaimsKept ==
  ASSUME TranscriptAssumption, TypeInv, ClaimsInv, NEW c \in Clients, Step(c)
  PROVE  ClaimsInv'
<1>0. /\ Content /\ next \in Nat /\ NoCall.after = {} /\ NoCall.forgotten = {}
      /\ pc \in [Clients -> Labels] /\ call \in [Clients -> Calls]
  BY Parts, Typed DEF NoCall
<1>1. /\ \A m \in Everything : \A k \in m.after : Claimed(k)
      /\ \A d \in Clients : \A k \in call[d].after \cup call[d].forgotten : Claimed(k)
  BY DEF Claimed
<1>2. CASE Looks(c)
  <2>1. Everything' = Everything /\ next' = next
    BY <1>2, LooksType
  <2>2. Carries(c) /\ \A d \in Clients \ {c} : call'[d] = call[d]
    BY <1>2, LooksCarry
  <2>3. Forgotten(NewestPage) \subseteq Compactions(log) /\ Compactions(NewestPage) \subseteq Compactions(log)
    BY PageIds DEF TypeInv
  <2>4. /\ call'[c].after \subseteq call[c].after \cup Compactions(log)
        /\ call'[c].forgotten \subseteq call[c].forgotten \cup Compactions(log)
    BY <2>2, <2>3 DEF Carries, CarriesAfter, CarriesForgotten
  <2>5. \A d \in Clients : \A k \in call'[d].after \cup call'[d].forgotten : Claimed(k) \/ k \in Compactions(log)
    BY <1>1, <2>2, <2>4
  <2> QED BY <1>0, <1>1, <2>1, <2>5, ClaimsStay
<1>3. CASE Restages(c)
  <2>1. Everything' = Everything /\ next' = next
    BY <1>3, RestagesType
  <2>2. \A d \in Clients : \A k \in call'[d].after \cup call'[d].forgotten : Claimed(k)
    BY <1>0, <1>1, <1>3, Drops
  <2> QED BY <1>0, <1>1, <2>1, <2>2, ClaimsStay
<1>4. CASE Admits(c) \/ Command(c) \/ ForeignPrompt
  <2>1. PICK m \in Messages :
          /\ Everything' = Everything \cup {m} /\ m.id = next
          /\ Inject(c) => m.after = call[c].forgotten
          /\ Admit(c) => m.after = call[c].after
          /\ ~Inject(c) /\ ~Admit(c) => m.after = {}
    BY <1>4, NewInput DEF Admits
  <2>2. next' = next + 1
    BY <1>4, NewInput DEF Admits
  <2>3. \A k \in m.after : Claimed(k)
    BY <1>1, <2>1
  <2>4. \A d \in Clients : \A k \in call'[d].after \cup call'[d].forgotten : Claimed(k)
    <3>1. CASE Admits(c)
      BY <1>0, <1>1, <3>1, Drops
    <3>2. CASE Command(c) \/ ForeignPrompt
      <4>1. Plain(c)
        BY <3>2 DEF Plain, Service
      <4> QED BY <1>1, <4>1, PlainRest
    <3> QED BY <1>4, <3>1, <3>2
  <2>5. \A o \in Everything' :
          /\ o.id >= next \/ \E x \in Everything : x.id = o.id /\ (x.kind = "compaction" => o.kind = "compaction")
          /\ \A k \in o.after : Claimed(k)
    BY <1>0, <1>1, <2>1, <2>3
  <2> QED BY <1>0, <2>2, <2>4, <2>5, ClaimsStay
<1>5. CASE ChangeDelivery(c)
  <2>1. /\ UNCHANGED <<log, next>>
        /\ \A m \in inbox' : m \in inbox \/ \E o \in inbox : o.id = call[c].item /\ m = Woken(c, o)
    BY <1>5, DeliveryChanged
  <2>2. \A o \in inbox : /\ Woken(c, o).id = o.id /\ Woken(c, o).kind = o.kind
                         /\ Woken(c, o).after = o.after \cup call[c].after
    BY <1>0 DEF Woken, Content, Messages
  <2>3. \A m \in Everything' :
          /\ \E o \in Everything : o.id = m.id /\ o.kind = m.kind
          /\ \A k \in m.after : Claimed(k)
    BY <1>1, <2>1, <2>2 DEF Everything
  <2>4. \A d \in Clients : \A k \in call'[d].after \cup call'[d].forgotten : Claimed(k)
    BY <1>0, <1>1, <1>5, Drops
  <2> QED BY <1>0, <2>1, <2>3, <2>4, ClaimsStay
<1>6. CASE Commit(c)
  <2>1. /\ UNCHANGED next /\ Len(log) \in Nat
        /\ \A i \in 1 .. Len(log') : i \in 1 .. Len(log) /\ log'[i] = log[i]
        /\ inbox' = {Answered(o, log') : o \in inbox}
        /\ \A o \in inbox : /\ Answered(o, log').id = o.id /\ Answered(o, log').kind = o.kind
                            /\ Answered(o, log').after \subseteq o.after
    BY <1>6, Cut
  <2>2. ToSet(log') \subseteq ToSet(log)
    <3> SUFFICES ASSUME NEW m \in ToSet(log') PROVE m \in ToSet(log)
      OBVIOUS
    <3>1. log' \in Seq(Messages)
      BY <1>6, Cut DEF Content
    <3>2. DOMAIN log' = 1 .. Len(log')
      BY <3>1, LenProperties
    <3>3. PICK i \in 1 .. Len(log') : m = log'[i]
      BY <3>2 DEF ToSet
    <3> QED BY <1>0, <2>1, <3>3, LogIs DEF Content
  <2>3. \A m \in Everything' :
          /\ \E o \in Everything : o.id = m.id /\ o.kind = m.kind
          /\ \A k \in m.after : Claimed(k)
    <3> SUFFICES ASSUME NEW m \in Everything'
                 PROVE  /\ \E o \in Everything : o.id = m.id /\ o.kind = m.kind
                        /\ \A k \in m.after : Claimed(k)
      OBVIOUS
    <3>1. CASE m \in ToSet(log')
      BY <1>1, <2>2, <3>1 DEF Everything
    <3>2. CASE m \in inbox'
      <4>1. PICK o \in inbox : m = Answered(o, log')
        BY <2>1, <3>2
      <4>2. o \in Everything /\ o.id = m.id /\ o.kind = m.kind /\ m.after \subseteq o.after
        BY <2>1, <4>1 DEF Everything
      <4> QED BY <1>1, <4>2
    <3> QED BY <3>1, <3>2 DEF Everything
  <2>4. \A d \in Clients : \A k \in call'[d].after \cup call'[d].forgotten : Claimed(k)
    <3> SUFFICES ASSUME NEW d \in Clients, NEW k \in call'[d].after \cup call'[d].forgotten PROVE Claimed(k)
      OBVIOUS
    <3>1. CASE d = c
      BY <1>0, <1>6, <3>1, CommitType
    <3>2. CASE d # c
      <4>1. call'[d] = [call[d] EXCEPT !.after = @ \ Compactions(log')] /\ call[d] \in Calls
        BY <1>0, <1>6, <3>2, CommitType
      <4>2. call'[d].after \subseteq call[d].after /\ call'[d].forgotten = call[d].forgotten
        BY <4>1 DEF Calls
      <4> QED BY <1>1, <4>2
    <3> QED BY <3>1, <3>2
  <2> QED BY <1>0, <2>1, <2>3, <2>4, ClaimsStay
<1>7. ASSUME Plain(c), next' \in Nat, next <= next',
             \A m \in Everything' :
               /\ \E o \in Everything : o.id = m.id /\ (o.kind = "compaction" => m.kind = "compaction")
               /\ \A k \in m.after : Claimed(k)
      PROVE  ClaimsInv'
  <2>1. \A d \in Clients : \A k \in call'[d].after \cup call'[d].forgotten : Claimed(k)
    BY <1>1, <1>7, PlainRest
  <2> QED BY <1>7, <2>1, ClaimsStay
<1>8. CASE Cancel(c) \/ TurnEnds
  <2>1. UNCHANGED <<log, next>> /\ inbox' \subseteq inbox
    BY <1>8 DEF Cancel, TurnEnds
  <2>2. Everything' \subseteq Everything
    BY <1>0, <2>1, InboxTaken
  <2> QED BY <1>0, <1>1, <1>7, <1>8, <2>1, <2>2 DEF Plain, Service
<1>9. ASSUME NEW kind \in {"assistant", "compaction"}, UNCHANGED <<inbox, next>>, Plain(c),
             log' = [i \in DOMAIN log |-> IF log[i].kind # "compacting" THEN log[i] ELSE [log[i] EXCEPT !.kind = kind]]
      PROVE  ClaimsInv'
  <2>1. /\ Content' /\ Len(log) \in Nat /\ Len(log') = Len(log)
        /\ \A i \in 1 .. Len(log) : /\ log[i].kind # "compacting" => log'[i] = log[i]
                                    /\ log'[i].id = log[i].id
    BY <1>0, <1>9, Relabelled
  <2>2. \A i \in 1 .. Len(log) : log[i] \in Messages /\ log[i] \in Everything /\ log'[i].after = log[i].after
    <3>1. DOMAIN log = 1 .. Len(log) /\ \A i \in 1 .. Len(log) : log[i] \in Messages /\ log[i] \in Everything
      BY <1>0, LogIs DEF Content, Everything
    <3>2. \A i \in 1 .. Len(log) : [log[i] EXCEPT !.kind = kind].after = log[i].after
      BY <3>1 DEF Messages
    <3>3. \A i \in 1 .. Len(log) : log'[i] = log[i] \/ log'[i] = [log[i] EXCEPT !.kind = kind]
      BY <1>9, <3>1
    <3> QED BY <3>1, <3>2, <3>3
  <2>3. \A m \in Everything' : m \in inbox \/ \E i \in 1 .. Len(log) : m = log'[i]
    <3>1. DOMAIN log' = 1 .. Len(log)
      BY <2>1, LenProperties DEF Content
    <3> QED BY <1>9, <3>1 DEF Everything, ToSet
  <2>4. ASSUME NEW m \in Everything'
        PROVE  /\ \E o \in Everything : o.id = m.id /\ (o.kind = "compaction" => m.kind = "compaction")
               /\ \A k \in m.after : Claimed(k)
    <3>1. CASE m \in inbox
      BY <1>1, <3>1 DEF Everything
    <3>2. CASE \E i \in 1 .. Len(log) : m = log'[i]
      <4>1. PICK i \in 1 .. Len(log) : m = log'[i]
        BY <3>2
      <4>2. log[i] \in Everything /\ log[i].id = m.id /\ m.after = log[i].after
        BY <2>1, <2>2, <4>1
      <4>3. log[i].kind = "compaction" => m.kind = "compaction"
        BY <2>1, <4>1
      <4> QED BY <1>1, <4>2, <4>3
    <3> QED BY <2>3, <3>1, <3>2
  <2> QED BY <1>0, <1>7, <1>9, <2>4
<1>10. CASE Interrupt(c)
  BY <1>9, <1>10 DEF Interrupt, Plain
<1>11. CASE CompactionEnds
  BY <1>9, <1>11 DEF CompactionEnds, Plain, Service
<1>12. CASE Answering \/ CompactionBegins
  <2> DEFINE m == log'[Len(log) + 1]
  <2>1. /\ m.kind \in {"assistant", "compacting"}
        /\ m.after \in {{}} \cup {o.after : o \in inbox}
        /\ m.id = next \/ \E o \in inbox : o.id = m.id /\ o.kind = "compact"
        /\ Everything' \subseteq Everything \cup {m}
        /\ next' \in Nat /\ next <= next'
    BY <1>12, Continues
  <2> HIDE DEF m
  <2>2. (\A k \in m.after : Claimed(k)) /\ inbox \subseteq Everything
    BY <1>1, <2>1 DEF Everything
  <2>3. \A o \in Everything' :
          /\ o.id >= next \/ \E x \in Everything : x.id = o.id /\ (x.kind = "compaction" => o.kind = "compaction")
          /\ \A k \in o.after : Claimed(k)
    BY <1>0, <1>1, <2>1, <2>2
  <2>4. UNCHANGED call
    BY <1>12, PlainRest DEF Plain, Service
  <2>5. \A d \in Clients : \A k \in call'[d].after \cup call'[d].forgotten : Claimed(k)
    BY <1>1, <2>4
  <2> QED BY <2>1, <2>3, <2>5, ClaimsStay
<1>13. CASE Land
  <2>1. PICK m \in inbox : /\ Ready(m) /\ ~Compacting
                           /\ log' = log \o InOrder(OfKind(inbox, "restore")) \o <<m>>
                           /\ inbox' = (inbox \ OfKind(inbox, "restore")) \ {m} /\ UNCHANGED next
    BY <1>13 DEF Land
  <2>2. Everything' \subseteq Everything
    BY <1>0, <2>1, Landed DEF Ready, TypeInv
  <2> QED BY <1>0, <1>1, <1>7, <1>13, <2>1, <2>2 DEF Plain, Service
<1> QED
  BY <1>2, <1>3, <1>4, <1>5, <1>6, <1>8, <1>10, <1>11, <1>12, <1>13 DEF Step, Plain, Service

-----------------------------------------------------------------------------
(* What is forgotten, by the places of the transcript.                     *)

Bare(s, i, p) == s[i].kind = "compaction" /\ \A j \in i + 1 .. p - 1 : s[j].kind \notin Marks
FirstOf(s) == \A p \in 1 .. Len(s) : s[p].kind = "user" =>
  \A i \in 1 .. p - 1 : Bare(s, i, p) => s[i].id \notin s[p].after
Free(s, after) == \A i \in 1 .. Len(s) : Bare(s, i, Len(s) + 1) => s[i].id \notin after
Alike(m, o) == m.id = o.id /\ m.after = o.after /\ (m.kind = o.kind \/ (m.kind \notin Marks /\ o.kind \notin Marks))

LEMMA FreeIs ==
  ASSUME NEW s \in Seq(Messages), NEW after
  PROVE  Forgotten(s) \cap after = {} <=> Free(s, after)
<1>0. Len(s) \in Nat /\ Len(s) + 1 - 1 = Len(s)
  BY LenProperties
<1>1. \A k : k \in Forgotten(s) <=> \E i \in 1 .. Len(s) : s[i].id = k /\ Bare(s, i, Len(s) + 1)
  BY <1>0, MarksOf DEF Bare
<1> QED BY <1>1 DEF Free

LEMMA FirstIs ==
  ASSUME NEW s \in Seq(Messages)
  PROVE  (\A p \in DOMAIN s : s[p].kind = "user" => Forgotten(SubSeq(s, 1, p - 1)) \cap s[p].after = {}) <=> FirstOf(s)
<1>0. Len(s) \in Nat /\ DOMAIN s = 1 .. Len(s) /\ \A i \in 1 .. Len(s) : s[i] \in Messages
  BY LenProperties
<1>1. ASSUME NEW p \in 1 .. Len(s)
      PROVE  Forgotten(SubSeq(s, 1, p - 1)) \cap s[p].after = {} <=>
               \A i \in 1 .. p - 1 : Bare(s, i, p) => s[i].id \notin s[p].after
  <2> DEFINE t == SubSeq(s, 1, p - 1)
  <2>1. t \in Seq(Messages) /\ Len(t) = p - 1 /\ \A i \in 1 .. p - 1 : t[i] = s[i]
    <3>1. 1 \in Int /\ p - 1 \in Int /\ \A i \in 1 .. p - 1 : s[i] \in Messages
      BY <1>0
    <3>2. /\ t \in Seq(Messages)
          /\ Len(t) = IF 1 <= p - 1 THEN p - 1 - 1 + 1 ELSE 0
          /\ \A i \in 1 .. p - 1 - 1 + 1 : t[i] = s[1 + i - 1]
      BY <3>1, SubSeqProperties
    <3> QED BY <1>0, <3>2
  <2> HIDE DEF t
  <2>2. Forgotten(t) \cap s[p].after = {} <=> Free(t, s[p].after)
    BY <2>1, FreeIs
  <2>3. \A i \in 1 .. p - 1 : Bare(t, i, p) <=> Bare(s, i, p)
    BY <1>0, <2>1 DEF Bare
  <2>4. Free(t, s[p].after) <=> \A i \in 1 .. p - 1 : Bare(s, i, p) => s[i].id \notin s[p].after
    <3>1. Len(t) + 1 = p /\ Len(t) = p - 1
      BY <1>0, <2>1
    <3>2. Free(t, s[p].after) <=> \A i \in 1 .. p - 1 : Bare(t, i, p) => t[i].id \notin s[p].after
      BY <3>1 DEF Free
    <3> QED BY <2>1, <2>3, <3>2
  <2> QED BY <2>2, <2>4 DEF t
<1> QED BY <1>0, <1>1 DEF FirstOf

LEMMA BareUpTo ==
  ASSUME NEW s \in Seq(Messages), NEW t \in Seq(Messages), NEW p \in Nat,
         \A i \in 1 .. p - 1 : Alike(s[i], t[i]), NEW i \in 1 .. p - 1, Bare(t, i, p)
  PROVE  Bare(s, i, p)
BY DEF Bare, Alike, Marks

LEMMA FirstUpTo ==
  ASSUME NEW s \in Seq(Messages), NEW t \in Seq(Messages), FirstOf(s), NEW n \in Nat, n <= Len(s),
         \A i \in 1 .. n : Alike(s[i], t[i]),
         \A p \in n + 1 .. Len(t) : t[p].kind = "user" => \A i \in 1 .. p - 1 : Bare(t, i, p) => t[i].id \notin t[p].after
  PROVE  FirstOf(t)
<1>0. Len(s) \in Nat /\ Len(t) \in Nat
  BY LenProperties
<1> SUFFICES ASSUME NEW p \in 1 .. Len(t), t[p].kind = "user", NEW i \in 1 .. p - 1, Bare(t, i, p)
             PROVE  t[i].id \notin t[p].after
  BY DEF FirstOf
<1>1. CASE p > n
  BY <1>0, <1>1
<1>2. CASE p <= n
  <2>1. p \in 1 .. n /\ i \in 1 .. n /\ p \in 1 .. Len(s)
    BY <1>0, <1>2
  <2>2. Bare(s, i, p)
    <3>1. \A j \in 1 .. p - 1 : Alike(s[j], t[j])
      BY <1>0, <2>1
    <3> QED BY <3>1, <2>1, BareUpTo
  <2>3. s[p].kind = "user" /\ s[p].after = t[p].after /\ s[i].id = t[i].id
    BY <2>1 DEF Alike, Marks
  <2> QED BY <2>1, <2>2, <2>3 DEF FirstOf
<1> QED BY <1>0, <1>1, <1>2

(* A message that does not matter forgets nothing and remembers nothing.   *)
LEMMA FreeAfter ==
  ASSUME NEW s \in Seq(Messages), NEW t \in Seq(Messages), NEW after, Free(s, after),
         Len(t) = Len(s) \/ (Len(t) = Len(s) + 1 /\ t[Len(t)].kind \notin Marks),
         \A i \in 1 .. Len(s) : Alike(s[i], t[i])
  PROVE  Free(t, after)
<1>0. Len(s) \in Nat /\ Len(t) \in Nat
  BY LenProperties
<1> SUFFICES ASSUME NEW i \in 1 .. Len(t), Bare(t, i, Len(t) + 1)
             PROVE  t[i].id \notin after
  BY DEF Free
<1>1. i \in 1 .. Len(s)
  <2>1. t[i].kind = "compaction" /\ "compaction" \in Marks
    BY DEF Bare, Marks
  <2> QED BY <1>0, <2>1
<1>2. Bare(t, i, Len(s) + 1)
  BY <1>0, <1>1 DEF Bare
<1>3. Bare(s, i, Len(s) + 1)
  <2>1. \A j \in 1 .. Len(s) + 1 - 1 : Alike(s[j], t[j])
    BY <1>0
  <2>2. i \in 1 .. Len(s) + 1 - 1 /\ Len(s) + 1 \in Nat
    BY <1>0, <1>1
  <2> QED BY <1>2, <2>1, <2>2, BareUpTo
<1>4. s[i].id = t[i].id
  BY <1>1 DEF Alike
<1> QED BY <1>1, <1>3, <1>4 DEF Free

LEMMA FirstForms ==
  ASSUME TypeInv, TypeInv'
  PROVE  /\ RestoredFirst <=> FirstOf(log)
         /\ RestoredFirst' <=> FirstOf(log')
         /\ \A after : Promised(inbox, log, after) <=> (OfKind(inbox, "restore") = {} => Free(log, after))
         /\ \A after : Promised(inbox', log', after) <=> (OfKind(inbox', "restore") = {} => Free(log', after))
<1>1. log \in Seq(Messages) /\ log' \in Seq(Messages)
  BY DEF TypeInv, TypeOK
<1>2. (RestoredFirst <=> FirstOf(log)) /\ (RestoredFirst' <=> FirstOf(log'))
  BY <1>1, FirstIs DEF RestoredFirst
<1>3. \A after : /\ Forgotten(log) \cap after = {} <=> Free(log, after)
                 /\ Forgotten(log') \cap after = {} <=> Free(log', after)
  BY <1>1, FreeIs
<1> QED BY <1>2, <1>3 DEF Promised

(* Nothing of the transcript changes, and no restoration leaves the inbox. *)
LEMMA PromisesStay ==
  ASSUME TypeInv, TypeInv', FirstInv, log' = log, OfKind(inbox', "restore") = {} => OfKind(inbox, "restore") = {}
  PROVE  RestoredFirst' /\ \A after : Promised(inbox, log, after) => Promised(inbox', log', after)
BY FirstForms DEF FirstInv

LEMMA PromisesEmpty ==
  ASSUME TRUE PROVE Promised(inbox, log, {}) /\ Promised(inbox', log', {})
BY DEF Promised

LEMMA PageForgets ==
  ASSUME TranscriptAssumption, TypeInv, Forgotten(NewestPage) = {}
  PROVE  Forgotten(log) \cap Compactions(NewestPage) = {}
<1>0. TypeOK /\ Content /\ Len(log) \in Nat /\ DOMAIN log = 1 .. Len(log)
  BY Parts, LogIs DEF TypeInv, Content
<1>1. PICK start \in 0 .. Len(log) :
        /\ NewestPage \in Seq(Messages) /\ Len(NewestPage) = Len(log) - start
        /\ \A i \in 1 .. Len(log) - start : NewestPage[i] = log[start + i]
  BY <1>0, PageIs
<1>2. DOMAIN NewestPage = 1 .. Len(log) - start
  BY <1>0, <1>1, LenProperties
<1> SUFFICES ASSUME NEW k \in Forgotten(log), k \in Compactions(NewestPage) PROVE FALSE
  OBVIOUS
<1>3. PICK i \in 1 .. Len(log) : log[i].id = k /\ log[i].kind = "compaction" /\ \A j \in i + 1 .. Len(log) : log[j].kind \notin Marks
  BY <1>0, MarksOf DEF Content
<1>4. PICK n \in 1 .. Len(log) - start : NewestPage[n].id = k
  BY <1>2 DEF Compactions, IdsOf, OfKind, ToSet
<1>5. start + n \in 1 .. Len(log) /\ log[start + n].id = k /\ NewestPage[n] = log[start + n]
  BY <1>0, <1>1, <1>4
<1>6. start + n = i
  BY <1>0, <1>3, <1>5 DEF Content
<1>7. \A j \in n + 1 .. Len(log) - start : NewestPage[j].kind \notin Marks
  <2> SUFFICES ASSUME NEW j \in n + 1 .. Len(log) - start PROVE NewestPage[j].kind \notin Marks
    OBVIOUS
  <2>1. j \in 1 .. Len(log) - start /\ start + j \in i + 1 .. Len(log)
    BY <1>0, <1>6
  <2> QED BY <1>1, <1>3, <2>1
<1>8. k \in Forgotten(NewestPage)
  <2>1. NewestPage[n].kind = "compaction"
    BY <1>3, <1>5, <1>6
  <2>2. n \in 1 .. Len(NewestPage) /\ \A j \in n + 1 .. Len(NewestPage) : NewestPage[j].kind \notin Marks
    BY <1>1, <1>7
  <2> QED BY <1>1, <1>4, <2>1, <2>2, MarksOf
<1> QED BY <1>8

LEMMA FirstOfRequests ==
  ASSUME TranscriptAssumption, TypeInv, FirstInv, NEW c \in Clients,
         Looks(c) \/ Restages(c) \/ Admits(c) \/ ChangeDelivery(c)
  PROVE  FirstInv'
<1>0. /\ TypeInv' /\ NoCall.after = {}
      /\ pc \in [Clients -> Labels] /\ call \in [Clients -> Calls]
  BY TypeKept, Typed DEF Step, NoCall
<1>1. ASSUME RestoredFirst', \A after : Promised(inbox, log, after) => Promised(inbox', log', after),
             \A m \in inbox' : m.kind = "user" => Promised(inbox', log', m.after),
             pc'[c] # "inject" => Promised(inbox', log', call'[c].after),
             \A d \in Clients \ {c} : call'[d] = call[d] /\ pc'[d] = pc[d]
      PROVE  FirstInv'
  <2>1. \A d \in Clients : pc'[d] # "inject" => Promised(inbox', log', call'[d].after)
    BY <1>1 DEF FirstInv
  <2>2. \A m \in OfKind(inbox', "user") : Promised(inbox', log', m.after)
    BY <1>1 DEF OfKind
  <2> QED BY <1>1, <2>1, <2>2 DEF FirstInv
<1>2. \A m \in inbox : m.kind = "user" => Promised(inbox, log, m.after)
  BY DEF FirstInv, OfKind
<1>3. CASE Looks(c)
  <2>1. UNCHANGED <<log, inbox>>
    BY <1>3, LooksType
  <2>2. RestoredFirst' /\ \A after : Promised(inbox, log, after) => Promised(inbox', log', after)
    BY <1>0, <2>1, PromisesStay
  <2>3. CarriesAfter(c) /\ \A d \in Clients \ {c} : call'[d] = call[d] /\ pc'[d] = pc[d]
    BY <1>3, LooksCarry DEF Carries
  <2>4. ASSUME pc'[c] # "inject" PROVE Promised(inbox', log', call'[c].after)
    <3>1. CASE call'[c].after = {}
      BY <3>1, PromisesEmpty
    <3>2. CASE call'[c].after = call[c].after /\ pc[c] # "inject"
      <4>1. Promised(inbox, log, call[c].after)
        BY <3>2 DEF FirstInv
      <4> QED BY <2>2, <3>2, <4>1
    <3>3. CASE OfKind(inbox, "restore") # {}
      BY <2>1, <3>3 DEF Promised
    <3>4. CASE call'[c].after = Compactions(NewestPage) /\ Forgotten(NewestPage) = {}
      <4>1. Forgotten(log') \cap call'[c].after = {}
        BY <2>1, <3>4, PageForgets
      <4> QED BY <4>1 DEF Promised
    <3> QED BY <2>3, <2>4, <3>1, <3>2, <3>3, <3>4 DEF CarriesAfter
  <2>5. \A m \in inbox' : m.kind = "user" => Promised(inbox', log', m.after)
    BY <1>2, <2>1, <2>2
  <2> QED BY <1>1, <2>2, <2>3, <2>4, <2>5
<1>4. CASE Restages(c)
  <2>1. UNCHANGED <<log, inbox>>
    BY <1>4, RestagesType
  <2>2. RestoredFirst' /\ \A after : Promised(inbox, log, after) => Promised(inbox', log', after)
    BY <1>0, <2>1, PromisesStay
  <2>3. call'[c] \in {NoCall, call[c]} /\ pc[c] # "inject" /\ \A d \in Clients \ {c} : call'[d] = call[d] /\ pc'[d] = pc[d]
    BY <1>4, Drops DEF Restages, Stage, Clear, At
  <2>4. Promised(inbox', log', call'[c].after)
    BY <1>0, <2>2, <2>3, PromisesEmpty DEF FirstInv
  <2>5. \A m \in inbox' : m.kind = "user" => Promised(inbox', log', m.after)
    BY <1>2, <2>1, <2>2
  <2> QED BY <1>1, <2>2, <2>3, <2>4, <2>5
<1>5. CASE Inject(c)
  <2>1. PICK m \in Messages : inbox' = inbox \cup {m} /\ m.kind = "restore" /\ UNCHANGED log
    BY <1>5, NewInput
  <2>2. m \in OfKind(inbox', "restore")
    BY <2>1 DEF OfKind
  <2>3. \A after : Promised(inbox', log', after)
    BY <2>2 DEF Promised
  <2>4. RestoredFirst'
    BY <1>0, <2>1, <2>2, PromisesStay
  <2>5. \A d \in Clients \ {c} : call'[d] = call[d] /\ pc'[d] = pc[d]
    BY <1>5, Drops DEF Admits
  <2> QED BY <1>1, <2>3, <2>4, <2>5
<1>6. CASE Admit(c) \/ Compact(c)
  <2>1. PICK m \in Messages : /\ inbox' = inbox \cup {m} /\ UNCHANGED log
                              /\ Admit(c) => m.after = call[c].after
                              /\ ~Inject(c) /\ ~Admit(c) => m.after = {}
    BY <1>6, NewInput
  <2>2. ~Inject(c) /\ (Admit(c) => pc[c] = "admit") /\ Answer(c)
    BY <1>6 DEF Inject, Admit, Compact, At
  <2>3. RestoredFirst' /\ \A after : Promised(inbox, log, after) => Promised(inbox', log', after)
    <3>1. OfKind(inbox, "restore") \subseteq OfKind(inbox', "restore")
      BY <2>1 DEF OfKind
    <3> QED BY <1>0, <2>1, <3>1, PromisesStay
  <2>4. Promised(inbox, log, m.after)
    <3>1. CASE Admit(c)
      <4>1. Promised(inbox, log, call[c].after)
        BY <2>2, <3>1 DEF FirstInv
      <4> QED BY <2>1, <3>1, <4>1
    <3>2. CASE ~Admit(c)
      BY <2>1, <2>2, <3>2, PromisesEmpty
    <3> QED BY <3>1, <3>2
  <2>5. \A o \in inbox' : o.kind = "user" => Promised(inbox', log', o.after)
    BY <1>2, <2>1, <2>3, <2>4
  <2>6. call'[c] = NoCall /\ \A d \in Clients \ {c} : call'[d] = call[d] /\ pc'[d] = pc[d]
    BY <1>0, <2>2 DEF Answer, Goto, With
  <2>7. Promised(inbox', log', call'[c].after)
    BY <1>0, <2>6, PromisesEmpty
  <2> QED BY <1>1, <2>3, <2>5, <2>6, <2>7
<1>7. CASE ChangeDelivery(c)
  <2>1. /\ UNCHANGED log
        /\ \A m \in inbox' : m \in inbox \/ \E o \in inbox : o.id = call[c].item /\ m = Woken(c, o)
    BY <1>7, DeliveryChanged
  <2>2. \A o \in inbox : Woken(c, o).kind = o.kind /\ Woken(c, o).after = o.after \cup call[c].after
    BY DEF Woken, TypeInv, TypeOK, Messages
  <2>3. OfKind(inbox', "restore") = {} => OfKind(inbox, "restore") = {}
    <3> SUFFICES ASSUME NEW o \in inbox, o.kind = "restore" PROVE \E m \in inbox' : m.kind = "restore"
      BY DEF OfKind
    <3>1. CASE inbox' = inbox
      BY <3>1
    <3>2. CASE inbox' # inbox
      <4>1. inbox' = {IF m.id # call[c].item THEN m ELSE Woken(c, m) : m \in inbox}
        BY <1>7, <3>2 DEF ChangeDelivery, Woken
      <4>2. (IF o.id # call[c].item THEN o ELSE Woken(c, o)) \in inbox'
        BY <4>1
      <4> QED BY <2>2, <4>2
    <3> QED BY <3>1, <3>2
  <2>4. RestoredFirst' /\ \A after : Promised(inbox, log, after) => Promised(inbox', log', after)
    BY <1>0, <2>1, <2>3, PromisesStay
  <2>5. Promised(inbox, log, call[c].after)
    BY <1>7 DEF ChangeDelivery, At, FirstInv
  <2>6. \A m \in inbox' : m.kind = "user" => Promised(inbox', log', m.after)
    <3> SUFFICES ASSUME NEW m \in inbox', m.kind = "user" PROVE Promised(inbox, log, m.after)
      BY <2>4
    <3>1. CASE m \in inbox
      BY <1>2, <3>1
    <3>2. CASE \E o \in inbox : m = Woken(c, o)
      <4>1. PICK o \in inbox : m = Woken(c, o)
        BY <3>2
      <4>2. Promised(inbox, log, o.after) /\ m.after = o.after \cup call[c].after
        BY <1>2, <2>2, <4>1
      <4> QED BY <2>5, <4>2 DEF Promised
    <3> QED BY <2>1, <3>1, <3>2
  <2>7. call'[c] = NoCall /\ \A d \in Clients \ {c} : call'[d] = call[d] /\ pc'[d] = pc[d]
    BY <1>0, <1>7 DEF ChangeDelivery, Answer, Goto, With
  <2>8. Promised(inbox', log', call'[c].after)
    BY <1>0, <2>7, PromisesEmpty
  <2> QED BY <1>1, <2>4, <2>6, <2>7, <2>8
<1> QED BY <1>3, <1>4, <1>5, <1>6, <1>7 DEF Admits

LEMMA ForgottenAreCompactions ==
  ASSUME NEW s PROVE Forgotten(s) \subseteq Compactions(s)
BY DEF Forgotten, Compactions, IdsOf, OfKind, ToSet

LEMMA FirstOfCommit ==
  ASSUME TranscriptAssumption, TypeInv, FirstInv, NEW c \in Clients, Commit(c)
  PROVE  FirstInv'
<1>0. TypeInv' /\ NoCall.after = {} /\ log \in Seq(Messages) /\ log' \in Seq(Messages) /\ call \in [Clients -> Calls]
  <2>1. TypeInv'
    BY TypeKept DEF Step
  <2> QED BY <2>1 DEF TypeInv, TypeOK, NoCall
<1>1. /\ Len(log) \in Nat /\ Len(log') \in Nat /\ Len(log') < Len(log)
      /\ \A i \in 1 .. Len(log') : i \in 1 .. Len(log) /\ log'[i] = log[i]
      /\ inbox' = {Answered(o, log') : o \in inbox}
      /\ \A o \in inbox : o.kind = "user" => Answered(o, log').after = o.after \ Compactions(log')
      /\ \A o \in inbox : Answered(o, log').kind = o.kind
  BY <1>0, Cut, LenProperties
<1>2. FirstOf(log')
  <2>1. FirstOf(log)
    BY <1>0, FirstForms DEF FirstInv
  <2>2. \A i \in 1 .. Len(log') : Alike(log[i], log'[i])
    BY <1>1 DEF Alike
  <2>3. Len(log') + 1 .. Len(log') = {} /\ Len(log') <= Len(log)
    BY <1>1
  <2> QED BY <1>0, <1>1, <2>1, <2>2, <2>3, FirstUpTo
<1>3. \A after : Promised(inbox', log', after \ Compactions(log')) /\ Promised(inbox', log', {})
  BY ForgottenAreCompactions DEF Promised
<1>4. \A m \in OfKind(inbox', "user") : Promised(inbox', log', m.after)
  <2> SUFFICES ASSUME NEW m \in inbox', m.kind = "user" PROVE Promised(inbox', log', m.after)
    BY DEF OfKind
  <2>1. PICK o \in inbox : m = Answered(o, log')
    BY <1>1
  <2>2. m.after = o.after \ Compactions(log')
    BY <1>1, <2>1
  <2> QED BY <1>3, <2>2
<1>5. \A d \in Clients : Promised(inbox', log', call'[d].after)
  <2> SUFFICES ASSUME NEW d \in Clients PROVE Promised(inbox', log', call'[d].after)
    OBVIOUS
  <2>1. CASE d = c
    BY <1>0, <1>3, <2>1, CommitType
  <2>2. CASE d # c
    <3>1. call'[d] = [call[d] EXCEPT !.after = @ \ Compactions(log')] /\ call[d] \in Calls
      BY <1>0, <2>2, CommitType
    <3>2. call'[d].after = call[d].after \ Compactions(log')
      BY <3>1 DEF Calls
    <3> QED BY <1>3, <3>2
  <2> QED BY <2>1, <2>2
<1>6. RestoredFirst'
  BY <1>0, <1>2, FirstForms
<1> QED BY <1>4, <1>5, <1>6 DEF FirstInv

LEMMA FirstOfPlain ==
  ASSUME TranscriptAssumption, TypeInv, ClaimsInv, FirstInv, NEW c \in Clients, Plain(c)
  PROVE  FirstInv'
<1>0. TypeInv' /\ log \in Seq(Messages) /\ log' \in Seq(Messages) /\ UNCHANGED <<pc, call>>
  <2>1. TypeInv'
    BY TypeKept DEF Step
  <2> QED BY <2>1, PlainRest DEF TypeInv, TypeOK
<1>1. /\ Len(log) \in Nat /\ DOMAIN log = 1 .. Len(log) /\ Content /\ FirstOf(log)
      /\ \A i \in 1 .. Len(log) : log[i] \in Messages /\ log[i] \in ToSet(log)
  BY <1>0, LogIs, Parts, FirstForms DEF FirstInv
<1>2. ASSUME FirstOf(log'),
             \A m \in inbox' : m.kind = "user" => m.after = {} \/ m \in inbox,
             \A after \in SUBSET Ids :
               Promised(inbox, log, after) /\ (\A k \in after : Claimed(k)) => Promised(inbox', log', after)
      PROVE  FirstInv'
  <2>1. RestoredFirst'
    BY <1>0, <1>2, FirstForms
  <2>2. Promised(inbox, log, {}) /\ Promised(inbox', log', {})
    BY PromisesEmpty
  <2>3. \A m \in inbox' : m.kind = "user" => Promised(inbox', log', m.after)
    <3> SUFFICES ASSUME NEW m \in inbox', m.kind = "user", m \in inbox PROVE Promised(inbox', log', m.after)
      BY <1>2, <2>2
    <3>1. Promised(inbox, log, m.after) /\ m.after \in SUBSET Ids /\ \A k \in m.after : Claimed(k)
      BY <1>1 DEF FirstInv, OfKind, Content, Messages, Claimed, Everything
    <3> QED BY <1>2, <3>1
  <2>4. \A d \in Clients : pc[d] # "inject" => Promised(inbox', log', call[d].after)
    <3> SUFFICES ASSUME NEW d \in Clients, pc[d] # "inject" PROVE Promised(inbox', log', call[d].after)
      OBVIOUS
    <3>1. Promised(inbox, log, call[d].after) /\ \A k \in call[d].after : Claimed(k)
      BY DEF FirstInv, Claimed
    <3>2. call[d].after \in SUBSET Ids
      BY Typed, Fields
    <3> QED BY <1>2, <3>1, <3>2
  <2> QED BY <1>0, <2>1, <2>3, <2>4 DEF FirstInv, OfKind
<1>3. ASSUME FirstOf(log'), \A m \in inbox' : m.kind = "user" => m.after = {} \/ m \in inbox,
             OfKind(inbox', "restore") = {} => OfKind(inbox, "restore") = {},
             Len(log') = Len(log) \/ (Len(log') = Len(log) + 1 /\ log'[Len(log')].kind \notin Marks),
             \A i \in 1 .. Len(log) : Alike(log[i], log'[i])
      PROVE  FirstInv'
  <2> SUFFICES ASSUME NEW after \in SUBSET Ids, Promised(inbox, log, after) PROVE Promised(inbox', log', after)
    BY <1>2, <1>3
  <2>1. Free(log, after) => Free(log', after)
    BY <1>0, <1>3, FreeAfter
  <2> QED BY <1>0, <1>3, <2>1, FirstForms
<1>4. CASE Cancel(c) \/ TurnEnds \/ Command(c) \/ ForeignPrompt
  <2>1. /\ log' = log /\ (OfKind(inbox', "restore") = {} => OfKind(inbox, "restore") = {})
        /\ \A m \in inbox' : m.kind = "user" => m.after = {} \/ m \in inbox
    <3>1. CASE Cancel(c)
      <4>1. PICK m \in inbox : m.kind # "restore" /\ inbox' = inbox \ {m} /\ log' = log
        BY <3>1 DEF Cancel
      <4> QED BY <4>1 DEF OfKind
    <3>2. CASE TurnEnds
      BY <3>2 DEF TurnEnds
    <3>3. CASE Command(c) \/ ForeignPrompt
      <4>1. inbox' = inbox \cup {Message("user")} /\ log' = log /\ Message("user").after = {}
        BY <3>3 DEF Command, ForeignPrompt, Message
      <4> QED BY <4>1 DEF OfKind
    <3> QED BY <1>4, <3>1, <3>2, <3>3
  <2>2. \A i \in 1 .. Len(log) : Alike(log[i], log'[i])
    BY <2>1 DEF Alike
  <2> QED BY <1>1, <1>3, <2>1, <2>2
<1>5. CASE Answering \/ CompactionBegins
  <2>1. /\ Len(log') = Len(log) + 1
        /\ \A i \in 1 .. Len(log) : log'[i] = log[i]
        /\ log'[Len(log) + 1].kind \in {"assistant", "compacting"}
        /\ inbox' \subseteq inbox /\ (\A m \in inbox \ inbox' : m.kind = "compact")
    BY <1>5, Continues
  <2>2. \A i \in 1 .. Len(log) : Alike(log[i], log'[i])
    BY <2>1 DEF Alike
  <2>3. OfKind(inbox', "restore") = {} => OfKind(inbox, "restore") = {}
    BY <2>1 DEF OfKind
  <2>4. log'[Len(log')].kind \notin Marks
    BY <1>1, <2>1 DEF Marks
  <2>5. FirstOf(log')
    <3>1. (\A p \in Len(log) + 1 .. Len(log') : log'[p].kind # "user") /\ Len(log) <= Len(log)
      BY <1>1, <2>1
    <3> QED BY <1>0, <1>1, <2>2, <3>1, FirstUpTo
  <2> QED BY <1>3, <2>1, <2>2, <2>3, <2>4, <2>5
<1>6. ASSUME NEW kind \in {"assistant", "compaction"}, UNCHANGED <<inbox, next>>,
             log' = [i \in DOMAIN log |-> IF log[i].kind # "compacting" THEN log[i] ELSE [log[i] EXCEPT !.kind = kind]]
      PROVE  /\ Len(log') = Len(log)
             /\ \A i \in 1 .. Len(log) :
                  /\ log[i].kind # "compacting" \/ kind = "assistant" => Alike(log[i], log'[i])
                  /\ log[i].kind = "compacting" => i = Len(log)
                  /\ log[i].kind = "compacting" => log'[i].kind = kind
                  /\ log'[i].id = log[i].id
                  /\ log'[i].kind = "user" => log[i].kind = "user"
  <2>1. /\ Len(log') = Len(log)
        /\ \A i \in 1 .. Len(log) : /\ log[i].kind # "compacting" => log'[i] = log[i]
                                    /\ log[i].kind = "compacting" => i = Len(log)
                                    /\ log[i].kind = "compacting" => log'[i].kind = kind
                                    /\ log'[i].id = log[i].id
    BY <1>1, <1>6, Relabelled
  <2>2. \A i \in 1 .. Len(log) : log'[i].after = log[i].after
    <3>1. \A i \in 1 .. Len(log) : [log[i] EXCEPT !.kind = kind].after = log[i].after
      BY <1>1 DEF Messages
    <3>2. \A i \in 1 .. Len(log) : log'[i] = log[i] \/ log'[i] = [log[i] EXCEPT !.kind = kind]
      BY <1>1, <1>6
    <3> QED BY <3>1, <3>2
  <2>3. \A i \in 1 .. Len(log) : log[i].kind # "compacting" \/ kind = "assistant" => Alike(log[i], log'[i])
    BY <2>1, <2>2 DEF Alike, Marks
  <2> QED BY <2>1, <2>3
<1>7. CASE Interrupt(c)
  <2>1. UNCHANGED <<inbox, next>>
        /\ log' = [i \in DOMAIN log |-> IF log[i].kind # "compacting" THEN log[i] ELSE [log[i] EXCEPT !.kind = "assistant"]]
    BY <1>7 DEF Interrupt
  <2>2. Len(log') = Len(log) /\ \A i \in 1 .. Len(log) : Alike(log[i], log'[i])
    BY <1>6, <2>1
  <2>3. FirstOf(log')
    <3>1. Len(log) + 1 .. Len(log') = {} /\ Len(log) <= Len(log)
      BY <1>1, <2>2
    <3> QED BY <1>0, <1>1, <2>2, <3>1, FirstUpTo
  <2> QED BY <1>3, <2>1, <2>2, <2>3
<1>8. CASE CompactionEnds
  <2>1. UNCHANGED <<inbox, next>> /\ Compacting
        /\ log' = [i \in DOMAIN log |-> IF log[i].kind # "compacting" THEN log[i] ELSE [log[i] EXCEPT !.kind = "compaction"]]
    BY <1>8 DEF CompactionEnds
  <2> DEFINE n == Len(log)
  <2>2. /\ Len(log') = n
        /\ \A i \in 1 .. n : /\ log[i].kind # "compacting" => Alike(log[i], log'[i])
                             /\ log[i].kind = "compacting" => i = n
                             /\ log[i].kind = "compacting" => log'[i].kind = "compaction"
                             /\ log'[i].id = log[i].id
                             /\ log'[i].kind = "user" => log[i].kind = "user"
    BY <1>6, <2>1
  <2>3. n \in 1 .. n /\ log[n].kind = "compacting"
    <3>1. PICK m \in ToSet(log) : m.kind = "compacting"
      BY <2>1 DEF Compacting, OfKind
    <3>2. PICK i \in 1 .. n : m = log[i]
      BY <1>0, LogIs
    <3>3. log[i].kind = "compacting"
      BY <3>1, <3>2
    <3>4. i = n
      BY <2>2, <3>3
    <3> QED BY <3>2, <3>3, <3>4
  <2> HIDE DEF n
  <2>4. n \in Nat /\ n - 1 \in Nat
    BY <1>1, <2>3 DEF n
  <2>5. FirstOf(log')
    <3>1. ASSUME NEW i \in 1 .. n - 1 PROVE Alike(log[i], log'[i])
      <4>1. i \in 1 .. n /\ i # n
        BY <2>4
      <4> QED BY <2>2, <4>1
    <3>2. ASSUME NEW p \in (n - 1) + 1 .. Len(log') PROVE log'[p].kind # "user"
      <4>1. p = n
        BY <2>2, <2>4
      <4>2. log'[n].kind = "compaction"
        BY <2>2, <2>3
      <4> QED BY <4>1, <4>2
    <3>3. n - 1 <= Len(log)
      BY <2>4 DEF n
    <3> QED BY <1>0, <1>1, <2>4, <3>1, <3>2, <3>3, FirstUpTo
  <2>6. ASSUME NEW after \in SUBSET Ids, \A k \in after : Claimed(k)
        PROVE  Promised(inbox', log', after)
    <3>1. log[n].id \in Ids /\ log[n] \in Everything
      BY <1>1, <2>3 DEF Messages, Everything, n
    <3>2. Unfit(log[n].id)
      BY <2>3, <3>1 DEF Unfit
    <3>3. log[n].id \notin after
      BY <2>6, <3>1, <3>2 DEF ClaimsInv
    <3>4. Free(log', after)
      <4> SUFFICES ASSUME NEW i \in 1 .. n, Bare(log', i, n + 1) PROVE log'[i].id \notin after
        BY <2>2 DEF Free
      <4>1. i = n
        <5>1. log'[n].kind \in Marks
          <6>1. log'[n].kind = "compaction"
            BY <2>2, <2>3
          <6> QED BY <6>1 DEF Marks
        <5>2. n \notin i + 1 .. n + 1 - 1
          BY <5>1 DEF Bare
        <5> QED BY <2>4, <5>2
      <4>2. log'[n].id = log[n].id
        BY <2>2, <2>3
      <4> QED BY <3>3, <4>1, <4>2
    <3> QED BY <1>0, <3>4, FirstForms
  <2> QED BY <1>2, <2>1, <2>5, <2>6
<1>9. CASE Land
  <2>1. PICK m \in inbox : /\ Ready(m) /\ ~Compacting
                           /\ log' = log \o InOrder(OfKind(inbox, "restore")) \o <<m>>
                           /\ inbox' = (inbox \ OfKind(inbox, "restore")) \ {m} /\ UNCHANGED next
    BY <1>9 DEF Land
  <2>2. m.kind = "user"
    BY <2>1 DEF Ready
  <2> DEFINE n == Len(log)
             R == OfKind(inbox, "restore")
  <2>3. PICK r \in Nat :
          /\ Len(log') = n + r + 1
          /\ R # {} => r > 0
          /\ \A i \in 1 .. n : log'[i] = log[i]
          /\ \A i \in n + 1 .. n + r : log'[i] \in R
          /\ log'[n + r + 1] = m
    BY <1>1, <2>1, <2>2, Landed DEF TypeInv
  <2>4. /\ \A o \in R : o.kind = "restore"
        /\ R = {} => Forgotten(log) \cap m.after = {}
    <3>1. m \in OfKind(inbox, "user")
      BY <2>2 DEF OfKind
    <3>2. Promised(inbox, log, m.after)
      BY <3>1 DEF FirstInv
    <3> QED BY <3>2 DEF OfKind, Promised
  <2> HIDE DEF n, R
  <2>5. n \in Nat /\ n = Len(log)
    BY <1>1 DEF n
  <2>6. ASSUME NEW p \in n + 1 .. Len(log'), log'[p].kind = "user", NEW i \in 1 .. p - 1, Bare(log', i, p)
        PROVE  log'[i].id \notin log'[p].after
    <3>1. p = n + r + 1
      BY <2>3, <2>4, <2>5, <2>6
    <3>2. i \in 1 .. n
      <4> SUFFICES ASSUME i \in n + 1 .. n + r PROVE FALSE
        BY <2>3, <2>5, <3>1
      <4>1. log'[i].kind = "restore"
        BY <2>3, <2>4
      <4> QED BY <2>6, <4>1 DEF Bare
    <3>3. r = 0
      <4> SUFFICES ASSUME r > 0 PROVE FALSE
        BY <2>3
      <4>1. n + r \in n + 1 .. n + r /\ n + r \in i + 1 .. p - 1
        BY <2>3, <2>5, <3>1, <3>2
      <4>2. log'[n + r].kind = "restore"
        BY <2>3, <2>4, <4>1
      <4> QED BY <2>6, <4>1, <4>2 DEF Bare, Marks
    <3>4. Free(log, m.after)
      BY <1>0, <2>3, <2>4, <3>3, FreeIs
    <3>5. Bare(log, i, n + 1)
      <4>1. p = n + 1 /\ \A j \in 1 .. p - 1 : Alike(log[j], log'[j])
        BY <2>3, <2>5, <3>1, <3>3 DEF Alike
      <4> QED BY <1>0, <2>5, <2>6, <4>1, BareUpTo
    <3> QED BY <2>3, <2>5, <3>1, <3>2, <3>4, <3>5 DEF Free
  <2>7. FirstOf(log')
    <3>1. \A i \in 1 .. n : Alike(log[i], log'[i])
      BY <2>3 DEF Alike
    <3> QED BY <1>0, <1>1, <2>5, <2>6, <3>1, FirstUpTo
  <2>8. \A after : Promised(inbox', log', after)
    <3> SUFFICES ASSUME NEW after PROVE Free(log', after)
      BY <1>0, FirstForms
    <3> SUFFICES ASSUME NEW i \in 1 .. Len(log'), Bare(log', i, Len(log') + 1) PROVE FALSE
      BY DEF Free
    <3>1. log'[Len(log')].kind = "user" /\ Len(log') \in Nat
      BY <2>2, <2>3, <2>5
    <3>2. i # Len(log')
      BY <3>1 DEF Bare
    <3>3. Len(log') \in i + 1 .. Len(log') + 1 - 1
      BY <3>1, <3>2
    <3> QED BY <3>1, <3>3 DEF Bare, Marks
  <2>9. \A o \in inbox' : o \in inbox
    BY <2>1
  <2> QED BY <1>2, <2>7, <2>8, <2>9
<1> QED BY <1>4, <1>5, <1>7, <1>8, <1>9 DEF Plain, Service

-----------------------------------------------------------------------------
(* A compaction is answered for once.                                      *)

LEMMA BehindStays ==
  ASSUME TypeInv, TypeInv', ClaimsInv', Behind, NEW n \in Nat, n <= Len(log),
         \A i \in 1 .. n : /\ log'[i].id = log[i].id /\ log'[i].after = log[i].after
                           /\ log'[i].kind = "restore" => log[i].kind = "restore",
         \A i \in n + 1 .. Len(log') : log'[i].kind # "compaction"
  PROVE  Behind'
<1>0. /\ Len(log) \in Nat /\ DOMAIN log = 1 .. Len(log) /\ log \in Seq(Messages)
  BY LogIs DEF TypeInv, TypeOK
<1>1. /\ Len(log') \in Nat /\ DOMAIN log' = 1 .. Len(log')
      /\ \A i \in 1 .. Len(log') : log'[i] \in Messages /\ log'[i] \in Everything'
  <2>1. log' \in Seq(Messages)
    BY DEF TypeInv, TypeOK
  <2> QED BY <2>1, LenProperties, ElementOfSeq DEF Everything, ToSet
<1> SUFFICES ASSUME NEW i \in 1 .. Len(log'), NEW j \in 1 .. Len(log'),
                    log'[j].kind = "restore", log'[i].id \in log'[j].after
             PROVE  i < j
  BY <1>1 DEF Behind
<1>2. i \in 1 .. n
  <2>1. PICK k \in Ids : k = log'[i].id /\ k \in log'[j].after
    BY <1>1 DEF Messages
  <2>2. Claimed(k)'
    BY <1>1, <2>1 DEF Claimed
  <2>3. log'[i].kind = "compaction"
    BY <1>1, <2>1, <2>2 DEF ClaimsInv, Unfit
  <2> QED BY <1>1, <2>3
<1>3. CASE j \in 1 .. n
  <2>1. i \in 1 .. Len(log) /\ j \in 1 .. Len(log)
    BY <1>0, <1>2, <1>3
  <2>2. log[j].kind = "restore" /\ log[i].id \in log[j].after
    BY <1>2, <1>3
  <2> QED BY <1>0, <2>1, <2>2 DEF Behind
<1>4. CASE j \notin 1 .. n
  BY <1>1, <1>2, <1>4
<1> QED BY <1>3, <1>4

LEMMA OnceStays ==
  ASSUME TypeInv, TypeInv', OnceInv, NEW c \in Clients, next <= next', Behind',
         OfKind(inbox', "restore") \subseteq OfKind(inbox, "restore"), Restorations' \subseteq Restorations,
         \A d \in Clients \ {c} :
           /\ pc'[d] = pc[d] /\ call'[d].op = call[d].op /\ call'[d].item = call[d].item
           /\ call'[d].blind = call[d].blind /\ call'[d].from = call[d].from
           /\ call'[d].forgotten = call[d].forgotten,
         OnceOf(c)'
  PROVE  OnceInv'
<1>1. RestoredOnce'
  BY DEF OnceInv, RestoredOnce
<1>2. ASSUME NEW d \in Clients \ {c} PROVE OnceOf(d)'
  <2>1. OnceOf(d) /\ call[d].item \in Nat /\ next \in Nat /\ next' \in Nat
    BY DEF OnceInv, TypeInv, TypeOK, Calls, Ids
  <2>2. call'[d].item < next' \/ ~(call[d].item < next)
    BY <2>1
  <2> QED BY <2>1, <2>2 DEF OnceOf
<1> QED BY <1>1, <1>2 DEF OnceInv

LEMMA PageAnswers ==
  ASSUME TranscriptAssumption, TypeInv, Behind, Forgotten(NewestPage) # {},
         NEW m \in ToSet(log), m.kind = "restore"
  PROVE  m.after # Forgotten(NewestPage)
<1>0. TypeOK /\ Content /\ Len(log) \in Nat /\ DOMAIN log = 1 .. Len(log)
  BY Parts, LogIs DEF TypeInv, Content
<1>1. PICK start \in 0 .. Len(log) :
        /\ NewestPage \in Seq(Messages) /\ Len(NewestPage) = Len(log) - start
        /\ \A i \in 1 .. Len(log) - start : NewestPage[i] = log[start + i]
  BY <1>0, PageIs
<1> SUFFICES ASSUME m.after = Forgotten(NewestPage) PROVE FALSE
  OBVIOUS
<1>2. PICK k : k \in Forgotten(NewestPage)
  OBVIOUS
<1>3. PICK n \in 1 .. Len(log) - start :
        NewestPage[n].id = k /\ \A j \in n + 1 .. Len(log) - start : NewestPage[j].kind \notin Marks
  BY <1>1, <1>2, MarksOf
<1>4. start + n \in 1 .. Len(log) /\ log[start + n].id = k
  BY <1>0, <1>1, <1>3
<1>5. PICK j \in 1 .. Len(log) : m = log[j]
  BY <1>0, LogIs DEF Content
<1>6. start + n < j
  BY <1>0, <1>2, <1>4, <1>5 DEF Behind
<1>7. j - start \in n + 1 .. Len(log) - start /\ j - start \in 1 .. Len(log) - start /\ start + (j - start) = j
  BY <1>0, <1>5, <1>6
<1>8. NewestPage[j - start] = m
  BY <1>1, <1>5, <1>7
<1> QED BY <1>3, <1>7, <1>8 DEF Marks

LEMMA OnceOfLooks ==
  ASSUME TranscriptAssumption, TypeInv, OnceInv, NEW c \in Clients, Looks(c)
  PROVE  OnceInv'
<1>0. TypeInv' /\ UNCHANGED <<log, inbox, next>> /\ Everything' = Everything
  BY LooksType
<1>1. Carries(c) /\ \A d \in Clients \ {c} : pc'[d] = pc[d] /\ call'[d] = call[d]
  BY LooksCarry
<1>2. Behind' /\ Restorations' = Restorations /\ next <= next'
  BY <1>0 DEF OnceInv, Behind, Restorations, TypeInv, TypeOK
<1>3. Content /\ OnceOf(c) /\ Restorations \subseteq Everything
  BY Parts DEF OnceInv, Restorations, OfKind, Everything
<1>4. OnceOf(c)'
  <2>1. ASSUME call'[c].op = "resume"
        PROVE  call'[c].item < next /\ \A m \in Restorations : m.id # call'[c].item
    <3>1. CASE call[c].op = "resume" /\ call'[c].item = call[c].item
      BY <1>3, <3>1 DEF OnceOf
    <3>2. CASE \E m \in inbox : m.kind # "restore" /\ call'[c].item = m.id
      <4>1. PICK o \in inbox : o.kind # "restore" /\ call'[c].item = o.id
        BY <3>2
      <4>2. o.id < next
        BY <1>3, <4>1 DEF Content, Placed, Everything
      <4>3. ASSUME NEW m \in Restorations PROVE m.id # o.id
        <5>1. m \in inbox \/ m \in ToSet(log)
          BY DEF Restorations, OfKind
        <5>2. m.kind = "restore"
          BY DEF Restorations, OfKind
        <5>3. o.id \in IdsOf(inbox) /\ (m \in ToSet(log) => m.id \in IdsOf(ToSet(log)))
          BY DEF IdsOf
        <5> QED BY <1>3, <4>1, <5>1, <5>2, <5>3 DEF Content
      <4> QED BY <4>1, <4>2, <4>3
    <3> QED BY <1>1, <2>1, <3>1, <3>2 DEF Carries, CarriesItem
  <2>2. ASSUME pc'[c] = "transcript", ~call'[c].blind, NEW m \in OfKind(inbox, "restore")
        PROVE  call'[c].from <= m.id
    BY <1>1, <2>2 DEF Carries, CarriesOn
  <2>3. ASSUME pc'[c] = "inject", ~call'[c].blind, NEW m \in Restorations, m.after = call'[c].forgotten
        PROVE  call'[c].from <= m.id
    <3>1. /\ pc[c] = "transcript" /\ Forgotten(NewestPage) # {}
          /\ call'[c].forgotten = Forgotten(NewestPage)
          /\ call'[c].blind = call[c].blind /\ call'[c].from = call[c].from
      BY <1>1, <2>3 DEF Carries, CarriesOn
    <3>2. CASE m \in ToSet(log)
      <4>1. m.kind = "restore" /\ Behind
        BY DEF Restorations, OfKind, OnceInv
      <4> QED BY <2>3, <3>1, <3>2, <4>1, PageAnswers
    <3>3. CASE m \in inbox
      <4>1. m \in OfKind(inbox, "restore")
        BY <3>3 DEF Restorations, OfKind
      <4> QED BY <1>3, <2>3, <3>1, <4>1 DEF OnceOf
    <3> QED BY <3>2, <3>3 DEF Restorations, OfKind
  <2> QED BY <1>0, <1>2, <2>1, <2>2, <2>3 DEF OnceOf
<1> QED BY <1>0, <1>1, <1>2, <1>4, OnceStays

(* A request whose part in the restoring is over.                          *)
LEMMA OnceOver ==
  ASSUME TranscriptAssumption, NEW c \in Clients, call'[c] = NoCall, pc'[c] = "idle"
  PROVE  OnceOf(c)'
BY DEF OnceOf, NoCall, TranscriptAssumption

LEMMA OnceOfRequests ==
  ASSUME TranscriptAssumption, TypeInv, ClaimsInv, OnceInv, NEW c \in Clients,
         Restages(c) \/ Admits(c) \/ ChangeDelivery(c)
  PROVE  OnceInv'
<1>0. TypeInv' /\ ClaimsInv' /\ Content /\ next \in Nat /\ OnceOf(c)
  BY TypeKept, ClaimsKept, Parts, Typed DEF Step, OnceInv
<1>1. /\ \/ call'[c] = NoCall /\ pc'[c] = "idle"
         \/ call'[c] = call[c] /\ pc'[c] \in {"reread", "admit"}
      /\ \A d \in Clients \ {c} : call'[d] = call[d] /\ pc'[d] = pc[d]
  BY Drops
<1>2. ASSUME OfKind(inbox', "restore") \subseteq OfKind(inbox, "restore"), Restorations' \subseteq Restorations,
             next <= next', log' = log
      PROVE  OnceInv'
  <2>1. Behind'
    BY <1>2 DEF OnceInv, Behind
  <2>2. OnceOf(c)'
    <3>1. CASE call'[c] = NoCall /\ pc'[c] = "idle"
      BY <3>1, OnceOver
    <3>2. CASE call'[c] = call[c] /\ pc'[c] \in {"reread", "admit"}
      <4>1. call[c].item \in Nat /\ next' \in Nat
        <5>1. call[c] \in Calls /\ next' \in 1 .. MaxId + 1
          BY <1>0, Typed DEF TypeInv, TypeOK
        <5> QED BY <5>1 DEF Calls, Ids
      <4>2. call[c].item < next => call[c].item < next'
        BY <1>0, <1>2, <4>1
      <4> QED BY <1>0, <1>2, <3>2, <4>2 DEF OnceOf
    <3> QED BY <1>1, <3>1, <3>2
  <2> QED BY <1>0, <1>1, <1>2, <2>1, <2>2, OnceStays
<1>3. CASE Restages(c)
  <2>1. UNCHANGED <<log, inbox, next>>
    BY <1>3, RestagesType
  <2> QED BY <1>0, <1>2, <2>1 DEF Restorations
<1>4. CASE Admit(c) \/ Compact(c)
  <2>1. ~Inject(c)
    BY <1>4 DEF Inject, Admit, Compact, At
  <2>2. PICK m \in Messages : inbox' = inbox \cup {m} /\ m.kind # "restore" /\ log' = log /\ next' = next + 1
    BY <1>4, <2>1, NewInput
  <2>3. OfKind(inbox', "restore") = OfKind(inbox, "restore") /\ Restorations' = Restorations
    BY <2>2 DEF OfKind, Restorations
  <2> QED BY <1>0, <1>2, <2>2, <2>3
<1>5. CASE ChangeDelivery(c)
  <2>1. /\ UNCHANGED <<log, next>>
        /\ \A m \in inbox' : m \in inbox \/ \E o \in inbox : o.id = call[c].item /\ m = Woken(c, o)
    BY <1>5, DeliveryChanged
  <2>2. \A o \in inbox : Woken(c, o).kind = o.kind
    BY <1>0 DEF Woken, Content, Messages
  <2>3. \A o \in OfKind(inbox, "restore") : o.id # call[c].item
    BY <1>0, <1>5 DEF OnceOf, ChangeDelivery, Restorations, OfKind
  <2>4. OfKind(inbox', "restore") \subseteq OfKind(inbox, "restore")
    BY <2>1, <2>2, <2>3 DEF OfKind
  <2>5. Restorations' \subseteq Restorations
    BY <2>1, <2>4 DEF Restorations, OfKind
  <2> QED BY <1>0, <1>2, <2>1, <2>4, <2>5
<1>6. CASE Inject(c)
  <2>1. PICK m \in Messages :
          /\ inbox' = inbox \cup {m} /\ m.id = next /\ m.kind = "restore" /\ m.after = call[c].forgotten
          /\ m.from = call[c].from /\ m.blind = call[c].blind
          /\ log' = log /\ next' = next + 1
    BY <1>6, NewInput
  <2>2. Restorations' \subseteq Restorations \cup {m} /\ OfKind(inbox', "restore") \subseteq OfKind(inbox, "restore") \cup {m}
    BY <2>1 DEF Restorations, OfKind
  <2>3. \A o \in Restorations : o.id \in Nat /\ o.id < next
    BY <1>0, LogIs DEF Content, Placed, Everything, Restorations, OfKind, Messages, Ids
  <2>4. pc[c] = "inject" /\ pc'[c] = "admit" /\ call'[c] = call[c]
    <3>1. pc[c] = "inject" /\ pc'[c] = "admit" /\ call' = call
      BY <1>6, Typed DEF Inject, At, Goto
    <3> QED BY <3>1
  <2>5. RestoredOnce'
    <3> SUFFICES ASSUME NEW first \in Restorations', NEW second \in Restorations',
                        first.id < second.id, first.after = second.after
                 PROVE  second.from <= first.id \/ second.blind
      BY DEF RestoredOnce
    <3>1. CASE first \in Restorations /\ second \in Restorations
      BY <3>1 DEF OnceInv, RestoredOnce
    <3>2. CASE first \in Restorations /\ second = m
      BY <1>0, <2>1, <2>4, <3>2 DEF OnceOf
    <3>3. CASE first = m
      BY <1>0, <2>1, <2>2, <2>3, <3>3
    <3> QED BY <2>2, <3>1, <3>2, <3>3
  <2>6. Behind'
    BY <2>1 DEF OnceInv, Behind
  <2>7. ASSUME NEW d \in Clients PROVE OnceOf(d)'
    <3>1. OnceOf(d) /\ call[d] \in Calls /\ Knows(d)
      BY Typed DEF OnceInv, TypeInv
    <3>2. call'[d] = call[d] /\ (pc'[d] = "transcript" => pc[d] = "transcript")
          /\ (pc'[d] = "inject" => pc[d] = "inject")
      BY <1>1, <2>4
    <3>3. call[d].item \in Nat /\ call[d].from \in Nat /\ call[d].from <= next
      BY <3>1 DEF Calls, Ids, Knows, KnowsOf
    <3>4. ASSUME call[d].op = "resume"
          PROVE  call[d].item < next' /\ \A o \in Restorations' : o.id # call[d].item
      BY <1>0, <2>1, <2>2, <3>1, <3>3, <3>4 DEF OnceOf
    <3>5. ASSUME pc'[d] = "transcript", ~call[d].blind, NEW o \in OfKind(inbox', "restore")
          PROVE  call[d].from <= o.id
      BY <2>1, <2>2, <3>1, <3>2, <3>3, <3>5 DEF OnceOf
    <3>6. ASSUME pc'[d] = "inject", ~call[d].blind, NEW o \in Restorations', o.after = call[d].forgotten
          PROVE  call[d].from <= o.id
      BY <2>1, <2>2, <3>1, <3>2, <3>3, <3>6 DEF OnceOf
    <3> QED BY <3>2, <3>4, <3>5, <3>6 DEF OnceOf
  <2> QED BY <2>5, <2>6, <2>7 DEF OnceInv
<1> QED BY <1>3, <1>4, <1>5, <1>6 DEF Admits

LEMMA OnceOfCommit ==
  ASSUME TranscriptAssumption, TypeInv, ClaimsInv, OnceInv, NEW c \in Clients, Commit(c)
  PROVE  OnceInv'
<1>0. /\ TypeInv' /\ ClaimsInv' /\ next' = next /\ next \in Nat /\ log' \in Seq(Messages)
      /\ pc \in [Clients -> Labels] /\ call \in [Clients -> Calls]
  <2>1. TypeInv' /\ ClaimsInv' /\ next' = next
    BY TypeKept, ClaimsKept, Cut DEF Step
  <2> QED BY <2>1, Typed DEF TypeInv, TypeOK
<1>1. /\ Len(log) \in Nat /\ Len(log') \in Nat /\ Len(log') < Len(log)
      /\ \A i \in 1 .. Len(log') : i \in 1 .. Len(log) /\ log'[i] = log[i]
      /\ inbox' = {Answered(o, log') : o \in inbox}
      /\ \A o \in inbox : /\ Answered(o, log').kind = o.kind
                          /\ o.kind = "user" \/ Answered(o, log') = o
  BY <1>0, Cut, LenProperties
<1>2. OfKind(inbox', "restore") \subseteq OfKind(inbox, "restore")
  <2> SUFFICES ASSUME NEW m \in inbox', m.kind = "restore" PROVE m \in inbox
    BY DEF OfKind
  <2>1. PICK o \in inbox : m = Answered(o, log')
    BY <1>1
  <2>2. o.kind = "restore"
    BY <1>1, <2>1
  <2> QED BY <1>1, <2>1, <2>2
<1>3. ToSet(log') \subseteq ToSet(log)
  <2> SUFFICES ASSUME NEW m \in ToSet(log') PROVE m \in ToSet(log)
    OBVIOUS
  <2>1. PICK i \in 1 .. Len(log') : m = log'[i]
    BY <1>0, LenProperties DEF ToSet
  <2>2. i \in 1 .. Len(log) /\ m = log[i]
    BY <1>1, <2>1
  <2> QED BY <2>2, LogIs DEF TypeInv, TypeOK
<1>4. Restorations' \subseteq Restorations
  BY <1>2, <1>3 DEF Restorations, OfKind
<1>5. Behind'
  <2>1. Behind /\ Len(log') <= Len(log) /\ Len(log') + 1 .. Len(log') = {}
    BY <1>1 DEF OnceInv
  <2> QED BY <1>0, <1>1, <2>1, BehindStays
<1>6. OnceOf(c)'
  <2>1. pc'[c] = "idle" /\ call'[c] = NoCall
    BY <1>0, CommitType
  <2> QED BY <2>1, OnceOver
<1>7. ASSUME NEW d \in Clients \ {c}
      PROVE  /\ pc'[d] = pc[d] /\ call'[d].op = call[d].op /\ call'[d].item = call[d].item
             /\ call'[d].blind = call[d].blind /\ call'[d].from = call[d].from
             /\ call'[d].forgotten = call[d].forgotten
  <2>1. /\ pc' = [pc EXCEPT ![c] = "idle"] /\ call[d] \in Calls
        /\ call'[d] = [call[d] EXCEPT !.after = @ \ Compactions(log')]
    BY <1>0, CommitType
  <2> QED BY <1>0, <2>1 DEF Calls
<1>8. next <= next'
  BY <1>0
<1> QED BY <1>0, <1>2, <1>4, <1>5, <1>6, <1>7, <1>8, OnceStays

LEMMA OnceOfPlain ==
  ASSUME TranscriptAssumption, TypeInv, ClaimsInv, OnceInv, NEW c \in Clients, Plain(c)
  PROVE  OnceInv'
<1>0. /\ TypeInv' /\ ClaimsInv' /\ UNCHANGED <<pc, call>> /\ Content /\ next \in Nat
      /\ Len(log) \in Nat /\ Behind /\ next' \in Nat
  <2>1. TypeInv' /\ ClaimsInv' /\ UNCHANGED <<pc, call>> /\ Content
    BY TypeKept, ClaimsKept, PlainRest, Parts DEF Step
  <2> QED BY <2>1, LogIs DEF Content, OnceInv, TypeInv, TypeOK
<1>1. ASSUME OfKind(inbox', "restore") \subseteq OfKind(inbox, "restore"), Restorations' \subseteq Restorations,
             next <= next', NEW n \in Nat, n <= Len(log),
             \A i \in 1 .. n : /\ log'[i].id = log[i].id /\ log'[i].after = log[i].after
                               /\ log'[i].kind = "restore" => log[i].kind = "restore",
             \A i \in n + 1 .. Len(log') : log'[i].kind # "compaction"
      PROVE  OnceInv'
  <2>1. Behind'
    BY <1>0, <1>1, BehindStays
  <2>2. OnceOf(c)'
    <3>1. OnceOf(c) /\ call[c].item \in Nat
      BY Typed DEF OnceInv, Calls, Ids
    <3>2. call[c].item < next => call[c].item < next'
      BY <1>0, <1>1, <3>1
    <3> QED BY <1>0, <1>1, <3>1, <3>2 DEF OnceOf
  <2> QED BY <1>0, <1>1, <2>1, <2>2, OnceStays
<1>2. ASSUME log' = log, OfKind(inbox', "restore") \subseteq OfKind(inbox, "restore"), next <= next'
      PROVE  OnceInv'
  <2>1. Restorations' \subseteq Restorations
    BY <1>2 DEF Restorations, OfKind
  <2>2. Len(log) <= Len(log) /\ Len(log) + 1 .. Len(log') = {}
    BY <1>0, <1>2
  <2> QED BY <1>0, <1>1, <1>2, <2>1, <2>2
<1>3. CASE Cancel(c) \/ TurnEnds
  <2>1. log' = log /\ inbox' \subseteq inbox /\ next' = next
    BY <1>3 DEF Cancel, TurnEnds
  <2>2. OfKind(inbox', "restore") \subseteq OfKind(inbox, "restore") /\ next <= next'
    BY <1>0, <2>1 DEF OfKind
  <2> QED BY <1>2, <2>1, <2>2
<1>4. CASE Command(c) \/ ForeignPrompt
  <2>1. inbox' = inbox \cup {Message("user")} /\ log' = log /\ next' = next + 1 /\ Message("user").kind = "user"
    BY <1>4 DEF Command, ForeignPrompt, NewId, Message
  <2>2. OfKind(inbox', "restore") \subseteq OfKind(inbox, "restore") /\ next <= next'
    BY <1>0, <2>1 DEF OfKind
  <2> QED BY <1>2, <2>1, <2>2
<1>5. CASE Answering \/ CompactionBegins
  <2>1. /\ Len(log') = Len(log) + 1
        /\ \A i \in 1 .. Len(log) : log'[i] = log[i]
        /\ log'[Len(log) + 1].kind \in {"assistant", "compacting"}
        /\ inbox' \subseteq inbox /\ next <= next'
        /\ Everything' \subseteq Everything \cup {log'[Len(log) + 1]}
    BY <1>5, Continues
  <2>2. OfKind(inbox', "restore") \subseteq OfKind(inbox, "restore") /\ Restorations' \subseteq Restorations
    BY <2>1 DEF Restorations, OfKind, Everything
  <2>3. Len(log) <= Len(log) /\ \A i \in Len(log) + 1 .. Len(log') : log'[i].kind # "compaction"
    BY <1>0, <2>1
  <2> QED BY <1>0, <1>1, <2>1, <2>2, <2>3
<1>6. ASSUME NEW kind \in {"assistant", "compaction"}, UNCHANGED <<inbox, next>>,
             log' = [i \in DOMAIN log |-> IF log[i].kind # "compacting" THEN log[i] ELSE [log[i] EXCEPT !.kind = kind]]
      PROVE  OnceInv'
  <2>1. /\ Content' /\ Len(log') = Len(log)
        /\ \A i \in 1 .. Len(log) : log'[i].id = log[i].id
        /\ \A i \in 1 .. Len(log) : log[i].kind # "compacting" => log'[i] = log[i]
        /\ \A i \in 1 .. Len(log) : log[i].kind = "compacting" => log'[i].kind = kind
    BY <1>0, <1>6, Relabelled
  <2>2. /\ DOMAIN log = 1 .. Len(log) /\ DOMAIN log' = 1 .. Len(log)
        /\ \A i \in 1 .. Len(log) : log[i] \in Messages /\ log[i] \in ToSet(log)
    BY <1>0, <2>1, LogIs, LenProperties DEF Content
  <2>3. \A i \in 1 .. Len(log) : log'[i].after = log[i].after
    <3>1. \A i \in 1 .. Len(log) : [log[i] EXCEPT !.kind = kind].after = log[i].after
      BY <2>2 DEF Messages
    <3>2. \A i \in 1 .. Len(log) : log'[i] = log[i] \/ log'[i] = [log[i] EXCEPT !.kind = kind]
      BY <1>6, <2>2
    <3> QED BY <3>1, <3>2
  <2>4. \A i \in 1 .. Len(log) : log'[i].kind = "restore" => log'[i] = log[i]
    BY <2>1
  <2>5. Restorations' \subseteq Restorations
    <3> SUFFICES ASSUME NEW m \in ToSet(log'), m.kind = "restore" PROVE m \in ToSet(log)
      BY <1>6 DEF Restorations, OfKind
    <3>1. PICK i \in 1 .. Len(log) : m = log'[i]
      BY <2>2 DEF ToSet
    <3> QED BY <2>2, <2>4, <3>1
  <2>6. Len(log) <= Len(log) /\ Len(log) + 1 .. Len(log') = {} /\ next <= next'
    BY <1>0, <1>6, <2>1
  <2> QED BY <1>0, <1>1, <1>6, <2>1, <2>3, <2>4, <2>5, <2>6
<1>7. CASE Interrupt(c)
  BY <1>6, <1>7 DEF Interrupt
<1>8. CASE CompactionEnds
  BY <1>6, <1>8 DEF CompactionEnds
<1>9. CASE Land
  <2>1. PICK m \in inbox : /\ Ready(m) /\ ~Compacting
                           /\ log' = log \o InOrder(OfKind(inbox, "restore")) \o <<m>>
                           /\ inbox' = (inbox \ OfKind(inbox, "restore")) \ {m} /\ UNCHANGED next
    BY <1>9 DEF Land
  <2>2. m.kind = "user"
    BY <2>1 DEF Ready
  <2>3. Everything' \subseteq Everything
    BY <1>0, <2>1, <2>2, Landed DEF TypeInv
  <2>4. PICK r \in Nat :
          /\ Len(log') = Len(log) + r + 1
          /\ \A i \in 1 .. Len(log) : log'[i] = log[i]
          /\ \A i \in Len(log) + 1 .. Len(log) + r : log'[i] \in OfKind(inbox, "restore")
          /\ log'[Len(log) + r + 1] = m
    BY <1>0, <2>1, <2>2, Landed DEF TypeInv
  <2>5. OfKind(inbox', "restore") \subseteq OfKind(inbox, "restore") /\ Restorations' \subseteq Restorations
    BY <2>1, <2>3 DEF Restorations, OfKind, Everything
  <2>6. ASSUME NEW i \in Len(log) + 1 .. Len(log') PROVE log'[i].kind # "compaction"
    <3>1. i \in Len(log) + 1 .. Len(log) + r \/ i = Len(log) + r + 1
      BY <1>0, <2>4
    <3> QED BY <2>2, <2>4, <3>1 DEF OfKind
  <2>7. Len(log) <= Len(log) /\ next <= next'
    BY <1>0, <2>1
  <2> QED BY <1>0, <1>1, <2>4, <2>5, <2>6, <2>7
<1> QED BY <1>3, <1>4, <1>5, <1>7, <1>8, <1>9 DEF Plain, Service

-----------------------------------------------------------------------------
(* What a commit takes out.                                                *)

LEMMA TouchedOrSame ==
  ASSUME TypeInv, NEW c \in Clients, Step(c)
  PROVE  Touch \/ (log' = log /\ stale' = stale) \/ (log' = log /\ stale' = stale \ {c} /\ pc'[c] = "idle")
<1>1. pc \in [Clients -> Labels]
  BY Typed
<1>2. CASE Looks(c)
  <2>1. CASE Refuse(c)
    BY <1>1, <2>1 DEF Refuse, Answer, Goto
  <2>2. CASE ~Refuse(c)
    BY <1>2, <2>2 DEF Looks, Send, Resume, AskCompact, AskRevert, AskFinal, Confirm, Begin, FailOpen, CheckInbox,
           InboxUnread, ReadTranscript, AdmitFails, Guard, LookIdle, Refused, Reread, service
  <2> QED BY <2>1, <2>2
<1>3. CASE Restages(c)
  BY <1>3 DEF Restages, Stage, Clear, Restage
<1>4. CASE Admits(c) \/ ChangeDelivery(c) \/ Commit(c)
  BY <1>4 DEF Admits, Inject, Admit, Compact, ChangeDelivery, Commit
<1>5. CASE Plain(c)
  BY <1>5 DEF Plain, Cancel, Command, Interrupt, Service, Land, Answering, TurnEnds, CompactionBegins, CompactionEnds,
         ForeignPrompt
<1> QED BY <1>2, <1>3, <1>4, <1>5 DEF Step

SameDialog(r, q) == r.op = q.op /\ r.target = q.target /\ r.shown = q.shown /\ r.unseen = q.unseen
(* What a step leaves the dialog of its own request at.                    *)
Dialog(c) ==
  \/ pc'[c] = "idle" /\ call'[c] = NoCall
  \/ pc'[c] \notin {"guard", "busy", "act", "commit"} /\ call'[c].unseen \in {{}, call[c].unseen}
  \/ /\ pc'[c] = "guard" /\ log' = log
     /\ call'[c].unseen = {} /\ call'[c].shown \in {{}, IdsOf(ToSet(log))}
  \/ /\ pc[c] = "guard" /\ c \notin stale /\ pc'[c] = "busy"
     /\ call'[c].op = call[c].op /\ call'[c].target = call[c].target
     /\ call[c].op \in {"commit", "clear"} => staged = call[c].target
     /\ call'[c].unseen = IF call[c].shown = {} THEN {} ELSE IdsOf(ToSet(log)) \ call[c].shown
  \/ pc[c] = "busy" /\ pc'[c] = "act" /\ call'[c] = call[c]
  \/ pc[c] = "reread" /\ pc'[c] = "commit" /\ call'[c] = call[c] /\ staged = call[c].target
  \/ pc'[c] = pc[c] /\ call'[c] = call[c]

LEMMA SameDialogAfter ==
  ASSUME NEW r \in Calls, NEW ids
  PROVE  SameDialog([r EXCEPT !.after = ids], r)
BY DEF Calls, SameDialog

LEMMA OthersDialogs ==
  ASSUME TranscriptAssumption, TypeInv, NEW c \in Clients, Step(c)
  PROVE  \A d \in Clients \ {c} : pc'[d] = pc[d] /\ SameDialog(call'[d], call[d])
<1>0. pc \in [Clients -> Labels] /\ call \in [Clients -> Calls]
  BY Typed
<1>1. CASE Looks(c)
  BY <1>1, LooksCarry DEF SameDialog
<1>2. CASE Restages(c)
  BY <1>0, <1>2 DEF Restages, Stage, Clear, Goto, With, SameDialog
<1>3. CASE Admits(c) \/ ChangeDelivery(c)
  BY <1>0, <1>3 DEF Admits, Inject, Admit, Compact, ChangeDelivery, Answer, Goto, With, SameDialog
<1>4. CASE Commit(c)
  <2> SUFFICES ASSUME NEW d \in Clients \ {c} PROVE pc'[d] = pc[d] /\ SameDialog(call'[d], call[d])
    OBVIOUS
  <2>1. pc' = [pc EXCEPT ![c] = "idle"] /\ call'[d] = [call[d] EXCEPT !.after = @ \ Compactions(log')]
    BY <1>4, CommitType
  <2>2. call[d] \in Calls /\ pc'[d] = pc[d]
    BY <1>0, <2>1
  <2>3. SameDialog([call[d] EXCEPT !.after = call[d].after \ Compactions(log')], call[d])
    BY <2>2, SameDialogAfter
  <2> QED BY <2>1, <2>2, <2>3
<1>5. CASE Plain(c)
  BY <1>5, PlainRest DEF SameDialog
<1> QED BY <1>1, <1>2, <1>3, <1>4, <1>5 DEF Step

LEMMA LooksDialog ==
  ASSUME TranscriptAssumption, TypeInv, NEW c \in Clients, Looks(c)
  PROVE  Dialog(c)
<1>0. pc \in [Clients -> Labels] /\ call \in [Clients -> Calls] /\ call[c] \in Calls
  BY Typed
<1>1. CASE Answer(c)
  BY <1>0, <1>1 DEF Answer, Goto, With, Dialog
<1>2. CASE Send(c)
  <2>1. pc'[c] = "inbox" /\ call'[c] = [NoCall EXCEPT !.op = "send", !.from = next]
    BY <1>0, <1>2 DEF Send, Begin, Goto, With
  <2>2. call'[c].unseen = {}
    BY <2>1 DEF NoCall
  <2> QED BY <2>1, <2>2 DEF Dialog
<1>3. CASE Resume(c)
  <2>1. PICK m \in inbox, d \in {"queue", "steer"} :
          Begin(c, IF d = "steer" THEN "inbox" ELSE "admit",
                [NoCall EXCEPT !.op = "resume", !.item = m.id, !.delivery = d, !.from = next])
    BY <1>3 DEF Resume
  <2>2. /\ pc'[c] \in {"inbox", "admit"}
        /\ call'[c] = [NoCall EXCEPT !.op = "resume", !.item = m.id, !.delivery = d, !.from = next]
    BY <1>0, <2>1 DEF Begin, Goto, With
  <2>3. call'[c].unseen = {}
    BY <2>2 DEF NoCall
  <2> QED BY <2>2, <2>3 DEF Dialog
<1>4. ASSUME NEW op, NEW target, Confirm(c, op, target) PROVE Dialog(c)
  <2> DEFINE shown == IF op \in {"revert", "commit"} THEN IdsOf(ToSet(log)) ELSE {}
  <2>1. pc'[c] = "guard" /\ log' = log /\ call'[c] = [NoCall EXCEPT !.op = op, !.target = target, !.shown = shown]
    BY <1>0, <1>4 DEF Confirm, Begin, Goto, With, service
  <2>2. shown \in {{}, IdsOf(ToSet(log))}
    OBVIOUS
  <2> HIDE DEF shown
  <2>3. call'[c].unseen = {} /\ call'[c].shown = shown
    BY <2>1 DEF NoCall
  <2> QED BY <2>1, <2>2, <2>3 DEF Dialog
<1>5. CASE FailOpen(c)
  <2>1. pc'[c] = "admit" /\ call'[c] = [call[c] EXCEPT !.after = {}]
    BY <1>0, <1>5 DEF FailOpen, Goto, With
  <2>2. call'[c].unseen = call[c].unseen
    BY <1>0, <2>1 DEF Calls
  <2> QED BY <2>1, <2>2 DEF Dialog
<1>6. CASE CheckInbox(c)
  <2>1. pc'[c] \in {"admit", "transcript"} /\ call'[c] \in {[call[c] EXCEPT !.after = Compactions(log)], call[c]}
    BY <1>0, <1>6 DEF CheckInbox, Goto, With
  <2>2. call'[c].unseen = call[c].unseen
    BY <1>0, <2>1 DEF Calls
  <2> QED BY <2>1, <2>2 DEF Dialog
<1>7. CASE InboxUnread(c)
  <2>1. pc'[c] = "transcript" /\ call'[c] = [call[c] EXCEPT !.blind = TRUE]
    BY <1>0, <1>7 DEF InboxUnread, Goto, With
  <2>2. call'[c].unseen = call[c].unseen
    BY <1>0, <2>1 DEF Calls
  <2> QED BY <2>1, <2>2 DEF Dialog
<1>8. CASE ReadTranscript(c)
  <2>1. /\ pc'[c] \in {"admit", "inject"}
        /\ call'[c] = [call[c] EXCEPT !.after = Compactions(NewestPage), !.forgotten = Forgotten(NewestPage)]
    BY <1>0, <1>8 DEF ReadTranscript, Goto, With
  <2>2. call'[c].unseen = call[c].unseen
    BY <1>0, <2>1 DEF Calls
  <2> QED BY <2>1, <2>2 DEF Dialog
<1>9. ASSUME Guard(c), ~Answer(c) PROVE Dialog(c)
  <2> DEFINE unseen == IF call[c].shown = {} THEN {} ELSE IdsOf(ToSet(log)) \ call[c].shown
  <2>1. /\ pc[c] = "guard" /\ Confirmed(c) /\ pc'[c] = "busy"
        /\ call'[c] = [call[c] EXCEPT !.shown = {}, !.unseen = unseen]
    BY <1>0, <1>9 DEF Guard, At, Goto, With, Refuse
  <2> HIDE DEF unseen
  <2>2. call'[c].op = call[c].op /\ call'[c].target = call[c].target /\ call'[c].unseen = unseen
    BY <1>0, <2>1 DEF Calls
  <2> QED BY <2>1, <2>2 DEF Dialog, Confirmed, unseen
<1>10. ASSUME LookIdle(c), ~Answer(c) PROVE Dialog(c)
  BY <1>0, <1>10 DEF LookIdle, At, Goto, Refuse, Dialog
<1>11. ASSUME Reread(c), ~Answer(c) PROVE Dialog(c)
  BY <1>0, <1>11 DEF Reread, At, Goto, Refuse, Dialog
<1>12. ASSUME AdmitFails(c) \/ Refused(c) PROVE Answer(c)
  BY <1>12 DEF AdmitFails, Refused, Refuse
<1>13. ASSUME AskCompact(c) \/ AskRevert(c) \/ AskFinal(c) PROVE \E op, target : Confirm(c, op, target)
  BY <1>13 DEF AskCompact, AskRevert, AskFinal
<1> QED BY <1>1, <1>2, <1>3, <1>4, <1>5, <1>6, <1>7, <1>8, <1>9, <1>10, <1>11, <1>12, <1>13 DEF Looks

LEMMA OwnDialog ==
  ASSUME TranscriptAssumption, TypeInv, NEW c \in Clients, Step(c)
  PROVE  Dialog(c)
<1>0. pc \in [Clients -> Labels] /\ call \in [Clients -> Calls]
  BY Typed
<1>1. CASE Looks(c)
  BY <1>1, LooksDialog
<1>2. CASE Restages(c)
  BY <1>0, <1>2 DEF Restages, Stage, Clear, Goto, With, Dialog
<1>3. CASE Admits(c) \/ ChangeDelivery(c)
  BY <1>0, <1>3 DEF Admits, Inject, Admit, Compact, ChangeDelivery, Answer, Goto, With, Dialog
<1>4. CASE Commit(c)
  BY <1>0, <1>4, CommitType DEF Dialog
<1>5. CASE Plain(c)
  BY <1>5, PlainRest DEF Dialog
<1> QED BY <1>1, <1>2, <1>3, <1>4, <1>5 DEF Step

(* A staged revert that changes is a race for whoever looked at it last.   *)
LEMMA StagedOrRaced ==
  ASSUME TypeInv, NEW c \in Clients, Step(c)
  PROVE  \/ PastLook \ {c} \subseteq raced' /\ pc'[c] \in {"idle", "reread"} /\ (pc'[c] = "idle" => call'[c] = NoCall)
            /\ (pc'[c] = "reread" => call'[c].op = "revert")
         \/ staged' = staged /\ (raced' = raced \/ (raced' = raced \ {c} /\ pc'[c] = "idle" /\ call'[c] = NoCall))
<1>0. pc \in [Clients -> Labels] /\ call \in [Clients -> Calls]
  BY Typed
<1>1. CASE Looks(c)
  <2>1. CASE Answer(c)
    <3>1. staged' = staged
      BY <1>1, <2>1 DEF Looks, Send, Resume, AskCompact, AskRevert, AskFinal, Confirm, Begin, FailOpen, CheckInbox,
             InboxUnread, ReadTranscript, AdmitFails, Guard, LookIdle, Refused, Reread, Refuse, service
    <3> QED BY <1>0, <2>1, <3>1 DEF Answer, Goto, With
  <2>2. CASE ~Answer(c)
    BY <1>1, <2>2 DEF Looks, Send, Resume, AskCompact, AskRevert, AskFinal, Confirm, Begin, FailOpen, CheckInbox,
           InboxUnread, ReadTranscript, AdmitFails, Guard, LookIdle, Refused, Reread, Refuse, service, history
  <2> QED BY <2>1, <2>2
<1>2. CASE Restages(c)
  BY <1>0, <1>2 DEF Restages, Stage, Clear, Goto, With
<1>3. CASE Admits(c) \/ ChangeDelivery(c)
  BY <1>0, <1>3 DEF Admits, Inject, Admit, Compact, ChangeDelivery, Answer, Goto, With, history
<1>4. CASE Commit(c)
  <2>1. pc'[c] = "idle" /\ call'[c] = NoCall /\ raced' = (raced \cup PastLook) \ {c}
    BY <1>0, <1>4 DEF Commit, Goto
  <2> QED BY <2>1
<1>5. CASE Plain(c)
  BY <1>5 DEF Plain, Cancel, Command, Interrupt, Service, Land, Answering, TurnEnds, CompactionBegins, CompactionEnds,
         ForeignPrompt, Outside, history
<1> QED BY <1>1, <1>2, <1>3, <1>4, <1>5 DEF Step

LEMMA PastLookAfter ==
  ASSUME TranscriptAssumption, TypeInv, NEW c \in Clients, Step(c)
  PROVE  \A d \in PastLook' \ {c} : d \in Clients /\ d \in PastLook /\ call'[d].target = call[d].target
<1> SUFFICES ASSUME NEW d \in PastLook' \ {c}
             PROVE  d \in Clients /\ d \in PastLook /\ call'[d].target = call[d].target
  OBVIOUS
<1>1. d \in Clients \ {c}
  BY DEF PastLook
<1>2. pc'[d] = pc[d] /\ call'[d].op = call[d].op /\ call'[d].target = call[d].target
  BY <1>1, OthersDialogs DEF SameDialog
<1> QED BY <1>1, <1>2 DEF PastLook, At

LEMMA AgreedKept ==
  ASSUME TranscriptAssumption, TypeInv, CommitInv, NEW c \in Clients, Step(c)
  PROVE  \A d \in PastLook' \ raced' : staged' = call'[d].target
<1> SUFFICES ASSUME NEW d \in PastLook', d \notin raced' PROVE staged' = call'[d].target
  OBVIOUS
<1>0. \A e \in PastLook \ raced : staged = call[e].target
  BY DEF CommitInv
<1>1. c \in PastLook' => pc'[c] = "commit" \/ (pc'[c] \in {"busy", "act"} /\ call'[c].op \in {"commit", "clear"})
  BY DEF PastLook, At
<1>2. NoCall.op \notin {"commit", "clear"}
  BY DEF NoCall, TranscriptAssumption
<1>3. CASE /\ PastLook \ {c} \subseteq raced' /\ pc'[c] \in {"idle", "reread"}
           /\ (pc'[c] = "idle" => call'[c] = NoCall) /\ (pc'[c] = "reread" => call'[c].op = "revert")
  <2>1. c \notin PastLook'
    BY <1>1, <1>3
  <2> QED BY <1>3, <2>1, PastLookAfter
<1>4. CASE staged' = staged /\ (raced' = raced \/ (raced' = raced \ {c} /\ pc'[c] = "idle" /\ call'[c] = NoCall))
  <2>1. CASE d # c
    <3>1. d \in PastLook /\ call'[d].target = call[d].target /\ d \notin raced
      BY <1>4, <2>1, PastLookAfter
    <3> QED BY <1>0, <1>4, <3>1
  <2>2. CASE d = c
    <3>1. pc'[c] # "idle" /\ raced' = raced /\ c \notin raced
      BY <1>1, <1>4, <2>2
    <3>2. CASE pc[c] = "guard" /\ pc'[c] = "busy" /\ call'[c].op = call[c].op /\ call'[c].target = call[c].target
               /\ (call[c].op \in {"commit", "clear"} => staged = call[c].target)
      BY <1>1, <1>4, <2>2, <3>2
    <3>3. CASE pc[c] = "reread" /\ pc'[c] = "commit" /\ call'[c] = call[c] /\ staged = call[c].target
      BY <1>4, <2>2, <3>3
    <3>4. CASE call'[c] = call[c] /\ (pc'[c] = pc[c] \/ (pc[c] = "busy" /\ pc'[c] = "act"))
      <4>1. c \in PastLook
        BY <1>1, <2>2, <3>4 DEF PastLook, At
      <4> QED BY <1>0, <1>4, <2>2, <3>1, <3>4, <4>1
    <3> QED BY <1>1, <2>2, <3>1, <3>2, <3>3, <3>4, OwnDialog DEF Dialog
  <2> QED BY <2>1, <2>2
<1> QED BY <1>3, <1>4, StagedOrRaced

LEMMA SeenKept ==
  ASSUME TranscriptAssumption, TypeInv, CommitInv, NEW c \in Clients, Step(c)
  PROVE  /\ \A d \in Clients : call'[d].unseen = {}
         /\ \A d \in Clients : pc'[d] = "guard" /\ d \notin stale' /\ call'[d].shown # {} =>
              call'[d].shown = IdsOf(ToSet(log'))
<1>0. /\ \A d \in Clients : call[d].unseen = {}
      /\ \A d \in Clients : pc[d] = "guard" /\ d \notin stale /\ call[d].shown # {} =>
           call[d].shown = IdsOf(ToSet(log))
      /\ NoCall.unseen = {}
  BY DEF CommitInv, NoCall
<1>1. \A d \in Clients \ {c} : pc'[d] = pc[d] /\ call'[d].shown = call[d].shown /\ call'[d].unseen = call[d].unseen
  BY OthersDialogs DEF SameDialog
<1>2. call'[c].unseen = {}
  <2>1. CASE /\ pc[c] = "guard" /\ c \notin stale
             /\ call'[c].unseen = IF call[c].shown = {} THEN {} ELSE IdsOf(ToSet(log)) \ call[c].shown
    BY <1>0, <2>1
  <2>2. CASE call'[c] \in {NoCall, call[c]} \/ call'[c].unseen \in {{}, call[c].unseen}
    BY <1>0, <2>2
  <2> QED BY <2>1, <2>2, OwnDialog DEF Dialog
<1>3. ASSUME NEW d \in Clients, pc'[d] = "guard", d \notin stale', call'[d].shown # {}
      PROVE  call'[d].shown = IdsOf(ToSet(log'))
  <2>1. CASE d = c /\ log' = log /\ call'[c].shown \in {{}, IdsOf(ToSet(log))}
    BY <1>3, <2>1
  <2>2. CASE pc[d] = "guard" /\ call'[d].shown = call[d].shown
    <3>1. ~Touch
      BY <1>3, <2>2 DEF Touch, At
    <3>2. log' = log /\ d \notin stale
      BY <1>3, <3>1, TouchedOrSame
    <3> QED BY <1>0, <1>3, <2>2, <3>2
  <2>3. CASE d = c
    BY <1>3, <2>1, <2>2, <2>3, OwnDialog DEF Dialog
  <2> QED BY <1>1, <1>3, <2>2, <2>3
<1> QED BY <1>0, <1>1, <1>2, <1>3

LEMMA CommitsKept ==
  ASSUME TranscriptAssumption, TypeInv, CommitInv, NEW c \in Clients, Step(c)
  PROVE  CommitsConfirmed'
<1>1. \A k \in commits : (k.raced \/ k.did = k.asked) /\ k.lost = {}
  BY DEF CommitInv, CommitsConfirmed
<1>2. CASE commits' = commits
  BY <1>1, <1>2 DEF CommitsConfirmed
<1>3. CASE Commit(c)
  <2>1. PICK gone : commits' = commits \cup {[asked |-> call[c].target, did |-> staged, raced |-> c \in raced,
                                              lost |-> gone \cap call[c].unseen]}
    BY <1>3 DEF Commit
  <2> DEFINE entry == [asked |-> call[c].target, did |-> staged, raced |-> c \in raced,
                       lost |-> gone \cap call[c].unseen]
  <2>2. c \in PastLook
    BY <1>3 DEF Commit, PastLook, At
  <2>3. c \in raced \/ staged = call[c].target
    BY <2>2 DEF CommitInv
  <2>4. call[c].unseen = {}
    BY DEF CommitInv
  <2>5. (entry.raced \/ entry.did = entry.asked) /\ entry.lost = {}
    BY <2>3, <2>4
  <2> HIDE DEF entry
  <2>6. \A k \in commits' : k \in commits \/ k = entry
    BY <2>1 DEF entry
  <2> QED BY <1>1, <2>5, <2>6 DEF CommitsConfirmed
<1>4. ~Commit(c) => commits' = commits
  BY DEF Step, Looks, Send, Resume, AskCompact, AskRevert, AskFinal, Confirm, Begin, FailOpen, CheckInbox,
         InboxUnread, ReadTranscript, AdmitFails, Guard, LookIdle, Refused, Reread, Refuse, Restages, Stage, Clear,
         Restage, Admits, Inject, Admit, Compact, ChangeDelivery, Plain, Cancel, Command, Interrupt, Service, Land,
         Answering, TurnEnds, CompactionBegins, CompactionEnds, ForeignPrompt, Outside, history
<1> QED BY <1>2, <1>3, <1>4

LEMMA CommitKept ==
  ASSUME TranscriptAssumption, TypeInv, CommitInv, NEW c \in Clients, Step(c)
  PROVE  CommitInv'
BY AgreedKept, SeenKept, CommitsKept DEF CommitInv

-----------------------------------------------------------------------------
(* The theorems                                                            *)

LEMMA FirstKept ==
  ASSUME TranscriptAssumption, TypeInv, ClaimsInv, FirstInv, NEW c \in Clients, Step(c)
  PROVE  FirstInv'
BY FirstOfRequests, FirstOfCommit, FirstOfPlain DEF Step

LEMMA OnceKept ==
  ASSUME TranscriptAssumption, TypeInv, ClaimsInv, OnceInv, NEW c \in Clients, Step(c)
  PROVE  OnceInv'
BY OnceOfLooks, OnceOfRequests, OnceOfCommit, OnceOfPlain DEF Step

LEMMA InitInv ==
  ASSUME TranscriptAssumption, Init
  PROVE  TranscriptInv
<1> DEFINE m == [Message("user") EXCEPT !.id = 1]
<1>1. m.after = {} /\ m.kind = "user"
  BY DEF Message
<1>2. log = <<m>> /\ inbox = {}
  BY DEF Init
<1> HIDE DEF m
<1>3. DOMAIN log = {1} /\ log[1] = m /\ ToSet(log) = {m} /\ Everything = {m}
  BY <1>2 DEF ToSet, Everything
<1>4. \A c \in Clients : pc[c] = "idle" /\ call[c] = NoCall
  BY DEF Init
<1>5. NoCall.op # "resume" /\ NoCall.after = {} /\ NoCall.forgotten = {} /\ NoCall.unseen = {} /\ NoCall.shown = {}
  BY DEF NoCall, TranscriptAssumption
<1>6. ClaimsInv
  BY <1>1, <1>3, <1>4, <1>5 DEF ClaimsInv, Claimed
<1>7. FirstInv
  BY <1>1, <1>2, <1>3, <1>4, <1>5 DEF FirstInv, RestoredFirst, OfKind, Promised
<1>8. OnceInv
  <2>1. Restorations = {}
    BY <1>1, <1>2, <1>3 DEF Restorations, OfKind
  <2> QED BY <1>1, <1>3, <1>4, <1>5, <2>1 DEF OnceInv, OnceOf, RestoredOnce, Behind
<1>9. CommitInv
  <2>1. NoCall.op \notin {"commit", "clear"}
    BY DEF NoCall, TranscriptAssumption
  <2>2. PastLook = {}
    BY <1>4, <2>1 DEF PastLook, At
  <2>3. commits = {}
    BY DEF Init
  <2> QED BY <1>4, <1>5, <2>2, <2>3 DEF CommitInv, CommitsConfirmed
<1> QED BY <1>6, <1>7, <1>8, <1>9, TypeInit DEF TranscriptInv

LEMMA NextInv ==
  ASSUME TranscriptAssumption, TranscriptInv, [Next]_vars
  PROVE  TranscriptInv'
<1>1. ASSUME NEW c \in Clients, Step(c)
      PROVE  TranscriptInv'
  BY <1>1, TypeKept, ClaimsKept, FirstKept, OnceKept, CommitKept DEF TranscriptInv
<1>2. CASE UNCHANGED vars
  <2>1. UNCHANGED <<log, inbox, queued, running, staged, stale, next, pc, call, calls, faults, commits, raced>>
    BY <1>2 DEF vars, service, history
  <2>2. TypeInv'
    <3>1. Content /\ Requests /\ Rest
      BY Parts DEF TranscriptInv
    <3>2. Content'
      BY <2>1, <3>1, SameContent
    <3>3. Requests'
      BY <2>1, <3>1 DEF Requests, Knows, KnowsOf
    <3>4. Rest'
      BY <2>1, <3>1 DEF Rest
    <3> QED BY <3>2, <3>3, <3>4, PartsAfter
  <2>3. ClaimsInv'
    BY <2>1 DEF TranscriptInv, ClaimsInv, Claimed, Unfit, Everything
  <2>4. FirstInv'
    BY <2>1 DEF TranscriptInv, FirstInv, RestoredFirst
  <2>5. OnceInv'
    BY <2>1 DEF TranscriptInv, OnceInv, RestoredOnce, Restorations, Behind, OnceOf
  <2>6. CommitInv'
    BY <2>1 DEF TranscriptInv, CommitInv, CommitsConfirmed, PastLook, At
  <2> QED BY <2>2, <2>3, <2>4, <2>5, <2>6 DEF TranscriptInv
<1> QED BY <1>1, <1>2, Steps

(* The inductive invariant of a session's transcript, its inbox and the    *)
(* requests against them, for any number of requests at once.              *)
THEOREM TranscriptInvariant == Spec => []TranscriptInv
<1>1. Init => TranscriptInv
  BY InitInv, TranscriptAssumption
<1>2. TranscriptInv /\ [Next]_vars => TranscriptInv'
  BY NextInv, TranscriptAssumption
<1> QED BY <1>1, <1>2, PTL DEF Spec

(* The variables of ChatTranscript keep their types, and a message its own *)
(* id: what reprime.go and sessionlifecycle.go look up by id is one        *)
(* message.                                                                *)
THEOREM TranscriptTypeCorrect == Spec => []TypeOK
<1>1. TranscriptInv => TypeOK
  BY DEF TranscriptInv, TypeInv
<1> QED BY <1>1, TranscriptInvariant, PTL

(* reprime.go: input whose request looked, without failing, after a        *)
(* compaction never follows that compaction bare, whatever other requests, *)
(* turns, compactions and commits do meanwhile.                            *)
THEOREM RestorationComesFirst == Spec => []RestoredFirst
<1>1. TranscriptInv => RestoredFirst
  BY DEF TranscriptInv, FirstInv
<1> QED BY <1>1, TranscriptInvariant, PTL

(* reprime.go, "self-terminating": a compaction is restored twice only     *)
(* when the second request looked before the first restoration was there,  *)
(* or could not read the inbox.                                            *)
THEOREM RestoresOnce == Spec => []RestoredOnce
<1>1. TranscriptInv => RestoredOnce
  BY DEF TranscriptInv, OnceInv
<1> QED BY <1>1, TranscriptInvariant, PTL

(* sessionRevert, revertFinal, confirmedIdle: a commit takes out what its  *)
(* dialog named and showed, unless another request changed the staged      *)
(* revert after the commit's own last look.                                *)
THEOREM CommitsAreConfirmed == Spec => []CommitsConfirmed
<1>1. TranscriptInv => CommitsConfirmed
  BY DEF TranscriptInv, CommitInv
<1> QED BY <1>1, TranscriptInvariant, PTL

=============================================================================
