-------------------------- MODULE CaseHistory_proofs --------------------------
(***************************************************************************)
(* What the history of a case says: that events are only added, and that   *)
(* replies, moderators and answers agree with it, for every set of cases,  *)
(* threads, messages and moderators.                                       *)
(***************************************************************************)
EXTENDS CaseService_proofs, CaseRefinement, FiniteSetTheorems

-----------------------------------------------------------------------------
(* Histories grow at the end. *)

\* Every event stays where it is.
Kept(events, longer) ==
  \A i \in DOMAIN events : i \in DOMAIN longer /\ longer[i] = events[i]

HistoriesGrow == \A c \in Cases : Kept(history[c], history'[c])

\* Appending an event keeps the others.
LEMMA AppendKeeps ==
  ASSUME NEW events \in Seq(CaseEvent), NEW event
  PROVE  Kept(events, Append(events, event))
  BY DEF Kept

\* A case that is stored has the row and the history of a case.
LEMMA StagedCall ==
  ASSUME TypeOK, NEW r \in Requests, calls[r].phase = "staged"
  PROVE  /\ calls[r].case \in Cases
         /\ cases[calls[r].case] \in CaseRow
         /\ history[calls[r].case] \in Seq(CaseEvent)
         /\ calls[r].loaded \in CaseRow
         /\ calls[r].op = "reply" => calls[r].arg \in Messages
         /\ calls[r].op = "reassign" => calls[r].arg \in Assignees
  BY DEF TypeOK, StoreTypeOK, CallOK, Call

\* A command that is not a reply adds one event or two, none of them a reply.
CommitOther(r) == CommitMark(r) \/ CommitConfirm(r) \/ CommitCancel(r) \/ CommitReassign(r)

\* The two events of a confirmation.
Confirmed(events) ==
  Append(Append(events, Event("USER_ANSWER_CONFIRMED", None)), Event("CASE_CLOSED", None))

\* The history between the two events of a confirmation.
LEMMA HalfConfirmed ==
  ASSUME NEW events \in Seq(CaseEvent)
  PROVE  /\ Append(events, Event("USER_ANSWER_CONFIRMED", None)) \in Seq(CaseEvent)
         /\ Kept(events, Confirmed(events))
<1>1. Append(events, Event("USER_ANSWER_CONFIRMED", None)) \in Seq(CaseEvent)
  BY AppendedEvent DEF CaseEventType, Reference
<1>2. Kept(events, Append(events, Event("USER_ANSWER_CONFIRMED", None)))
  BY AppendKeeps
<1>3. Kept(Append(events, Event("USER_ANSWER_CONFIRMED", None)), Confirmed(events))
  BY <1>1, AppendKeeps DEF Confirmed
<1> QED BY <1>1, <1>2, <1>3 DEF Kept

\* The events a transaction leaves are those of its case; no other case is touched.
LEMMA CommitGrows ==
  ASSUME TypeOK, NEW r \in Requests, NEW row, NEW events, calls[r].case \in Cases,
         Commit(r, row, events), Kept(history[calls[r].case], events)
  PROVE  HistoriesGrow
  BY DEF TypeOK, StoreTypeOK, Commit, HistoriesGrow, Kept

\* A step that leaves the histories keeps them.
LEMMA SameHistories == UNCHANGED history => HistoriesGrow
  BY DEF HistoriesGrow, Kept

\* The reading steps and the ends of a call leave the store.
LEMMA ReadingSteps ==
  ASSUME NEW r \in Requests,
         \/ \E c \in Cases : Receive(r, c)
         \/ LookUpReply(r) \/ RollBack(r) \/ Return(r)
  PROVE  UNCHANGED storeVars
  BY DEF Receive, ReceiveTransition, RejectUnknownCase, ReceiveReply, ReceiveReassign,
         LookUpReply, RollBack, Return

\* No step removes or changes an event.
LEMMA CaseNextGrows ==
  ASSUME TypeOK, [CaseNext]_caseVars
  PROVE  HistoriesGrow
<1>1. CASE UNCHANGED history
  BY <1>1, SameHistories
<1>2. ASSUME NEW c \in Cases, NEW m \in Assignees, CreateCase(c, m)
      PROVE  HistoriesGrow
  <2>1. Kept(history[c], Append(history[c], Event("CASE_CREATED", None)))
    BY AppendKeeps DEF TypeOK, StoreTypeOK
  <2> QED BY <1>2, <2>1 DEF CreateCase, HistoriesGrow, Kept, TypeOK, StoreTypeOK
<1>3. ASSUME NEW r \in Requests, CommitCommand(r) PROVE HistoriesGrow
  <2> DEFINE c == calls[r].case
  <2>1. c \in Cases /\ history[c] \in Seq(CaseEvent)
    BY <1>3, StagedCall DEF CommitCommand, CommitMark, CommitReply, CommitConfirm,
                            CommitCancel, CommitReassign, Staged
  <2>2. \A event : Kept(history[c], Append(history[c], event))
    BY <2>1, AppendKeeps
  <2>3. Kept(history[c], Confirmed(history[c]))
    BY <2>1, HalfConfirmed
  <2>4. CASE CommitMark(r)
    BY <2>1, <2>2, <2>4, CommitGrows DEF CommitMark
  <2>5. CASE CommitReply(r)
    <3>1. CASE UNCHANGED storeVars
      BY <3>1, SameHistories DEF storeVars
    <3> QED BY <2>1, <2>2, <2>5, <3>1, CommitGrows DEF CommitReply
  <2>6. CASE CommitConfirm(r)
    BY <2>1, <2>3, <2>6, CommitGrows DEF CommitConfirm, Confirmed
  <2>7. CASE CommitCancel(r)
    BY <2>1, <2>2, <2>7, CommitGrows DEF CommitCancel
  <2>8. CASE CommitReassign(r)
    BY <2>1, <2>2, <2>8, CommitGrows DEF CommitReassign
  <2> QED BY <1>3, <2>4, <2>5, <2>6, <2>7, <2>8 DEF CommitCommand
<1> QED
  BY <1>1, <1>2, <1>3, ReadingSteps DEF CaseNext, Tick, storeVars, caseVars

\* The events of the commands: one of these types, or the one that reports a request sent.
CommandEvents ==
  {"CASE_CREATED", "CLIENT_REPLY_RECEIVED", "MODERATOR_CHANGED", "USER_ANSWER_CONFIRMED",
   "CASE_CLOSED", "CASE_CANCELLED"}
RequestSent == Event("CLIENT_REQUEST_SENT", None)

\* Every event that is in the longer history only is such an event.
Added(events, longer, types) ==
  \A i \in DOMAIN longer :
    i \notin DOMAIN events => longer[i].type \in types \/ longer[i] = RequestSent

HistoriesAdd(types) == \A c \in Cases : Added(history[c], history'[c], types)

\* An event that is appended is the one that is added.
LEMMA AppendAdds ==
  ASSUME NEW events \in Seq(CaseEvent), NEW types, NEW type \in types, NEW ref
  PROVE  /\ Added(events, Append(events, Event(type, ref)), types)
         /\ Added(events, Append(events, RequestSent), types)
<1> DEFINE event == Event(type, ref)
<1>1. event.type \in types
  BY DEF Event
<1> HIDE DEF event
<1>2. Added(events, Append(events, event), types)
  BY <1>1 DEF Added
<1>3. Added(events, Append(events, RequestSent), types)
  BY DEF Added
<1> QED BY <1>2, <1>3 DEF event

\* A confirmation adds two.
LEMMA ConfirmedAdds ==
  ASSUME NEW events \in Seq(CaseEvent)
  PROVE  Added(events, Confirmed(events), CommandEvents)
<1> DEFINE half == Append(events, Event("USER_ANSWER_CONFIRMED", None))
<1>1. half \in Seq(CaseEvent)
  BY HalfConfirmed
<1>2. Added(events, half, CommandEvents)
  BY AppendAdds DEF CommandEvents
<1>3. Kept(events, half)
  BY AppendKeeps
<1> HIDE DEF half
<1>4. Added(half, Append(half, Event("CASE_CLOSED", None)), CommandEvents)
  BY <1>1, AppendAdds DEF CommandEvents
<1>5. Kept(half, Append(half, Event("CASE_CLOSED", None)))
  BY <1>1, AppendKeeps
<1> QED BY <1>2, <1>3, <1>4, <1>5 DEF Added, Kept, Confirmed, half

\* A transaction adds the events of its case.
LEMMA CommitAdds ==
  ASSUME TypeOK, NEW r \in Requests, NEW row, NEW events, calls[r].case \in Cases,
         Commit(r, row, events), NEW types, Added(history[calls[r].case], events, types)
  PROVE  HistoriesAdd(types)
  BY DEF TypeOK, StoreTypeOK, Commit, HistoriesAdd, Added

\* A command adds events of the commands only.
LEMMA CaseNextAdds ==
  ASSUME TypeOK, [CaseNext]_caseVars
  PROVE  HistoriesAdd(CommandEvents)
<1>1. CASE UNCHANGED history
  BY <1>1 DEF HistoriesAdd, Added
<1>2. ASSUME NEW c \in Cases, NEW m \in Assignees, CreateCase(c, m)
      PROVE  HistoriesAdd(CommandEvents)
  <2>1. Added(history[c], Append(history[c], Event("CASE_CREATED", None)), CommandEvents)
    BY AppendAdds DEF TypeOK, StoreTypeOK, CommandEvents
  <2> QED BY <1>2, <2>1 DEF CreateCase, HistoriesAdd, Added, TypeOK, StoreTypeOK
<1>3. ASSUME NEW r \in Requests, CommitCommand(r) PROVE HistoriesAdd(CommandEvents)
  <2> DEFINE c == calls[r].case
  <2>1. c \in Cases /\ history[c] \in Seq(CaseEvent)
    BY <1>3, StagedCall DEF CommitCommand, CommitMark, CommitReply, CommitConfirm,
                            CommitCancel, CommitReassign, Staged
  <2>2. \A type \in CommandEvents : \A ref :
          /\ Added(history[c], Append(history[c], Event(type, ref)), CommandEvents)
          /\ Added(history[c], Append(history[c], RequestSent), CommandEvents)
    BY <2>1, AppendAdds
  <2>3. Added(history[c], Confirmed(history[c]), CommandEvents)
    BY <2>1, ConfirmedAdds
  <2>4. CASE CommitMark(r)
    BY <2>1, <2>2, <2>4, CommitAdds DEF CommitMark, CommandEvents, RequestSent
  <2>5. CASE CommitReply(r)
    <3>1. CASE UNCHANGED storeVars
      BY <1>1, <3>1 DEF storeVars
    <3> QED BY <2>1, <2>2, <2>5, <3>1, CommitAdds DEF CommitReply, CommandEvents
  <2>6. CASE CommitConfirm(r)
    BY <2>1, <2>3, <2>6, CommitAdds DEF CommitConfirm, Confirmed
  <2>7. CASE CommitCancel(r)
    BY <2>1, <2>2, <2>7, CommitAdds DEF CommitCancel, CommandEvents
  <2>8. CASE CommitReassign(r)
    BY <2>1, <2>2, <2>8, CommitAdds DEF CommitReassign, CommandEvents
  <2> QED BY <1>3, <2>4, <2>5, <2>6, <2>7, <2>8 DEF CommitCommand
<1> QED
  BY <1>1, <1>2, <1>3, ReadingSteps DEF CaseNext, Tick, storeVars, caseVars

-----------------------------------------------------------------------------
(* How often an event is in a history. *)

Places(event, events) == {i \in DOMAIN events : events[i] = event}

\* Another event is somewhere else.
LEMMA OtherEvent ==
  ASSUME NEW events \in Seq(CaseEvent), NEW event, NEW other, other # event
  PROVE  Places(event, Append(events, other)) = Places(event, events)
  BY DEF Places

\* What is added to a history is somewhere else if it is another event.
LEMMA OtherTypesAdded ==
  ASSUME NEW events, NEW longer, NEW types, NEW event,
         event.type \notin types, event # RequestSent,
         Kept(events, longer), Added(events, longer, types)
  PROVE  Places(event, longer) = Places(event, events)
  BY DEF Places, Kept, Added

\* The places in a history can be counted.
LEMMA PlacesFinite ==
  ASSUME NEW events \in Seq(CaseEvent), NEW event
  PROVE  IsFiniteSet(Places(event, events)) /\ Cardinality(Places(event, events)) \in Nat
<1>1. Len(events) \in Int /\ DOMAIN events = 1..Len(events)
  OBVIOUS
<1>2. IsFiniteSet(DOMAIN events)
  BY <1>1, FS_Interval
<1>3. Places(event, events) \in SUBSET DOMAIN events
  BY DEF Places
<1>4. IsFiniteSet(Places(event, events))
  BY <1>2, <1>3, FS_Subset
<1> QED BY <1>4, FS_CardinalityType

\* An event that is added is there once more.
LEMMA SameEvent ==
  ASSUME NEW events \in Seq(CaseEvent), NEW event
  PROVE  Cardinality(Places(event, Append(events, event)))
           = Cardinality(Places(event, events)) + 1
<1>1. Places(event, Append(events, event)) = Places(event, events) \cup {Len(events) + 1}
  BY DEF Places
<1>2. (Len(events) + 1) \notin Places(event, events)
  BY DEF Places
<1>3. IsFiniteSet(Places(event, events))
  BY PlacesFinite
<1> QED BY <1>1, <1>2, <1>3, FS_AddElement

\* What is counted once or more is there.
LEMMA CountedIsThere ==
  ASSUME NEW events \in Seq(CaseEvent), NEW event,
         Cardinality(Places(event, events)) # 0
  PROVE  \E i \in DOMAIN events : events[i] = event
<1>1. Places(event, events) # {}
  BY FS_EmptySet
<1> QED BY <1>1 DEF Places

-----------------------------------------------------------------------------
(* Replies. *)

Reply(m) == Event("CLIENT_REPLY_RECEIVED", m)

\* The property, in terms of places.
LEMMA RepliesCounted ==
  RepliesMatchHistory <=>
    \A m \in Messages : \A c \in Cases :
      Cardinality(Places(Reply(m), history[c])) = IF replies[m] = c THEN 1 ELSE 0
  BY DEF RepliesMatchHistory, Places, Reply

\* A step that leaves the replies where they are keeps the agreement.
LEMMA RepliesUndisturbed ==
  ASSUME RepliesMatchHistory, UNCHANGED replies,
         \A m \in Messages : \A c \in Cases :
           Places(Reply(m), history'[c]) = Places(Reply(m), history[c])
  PROVE  RepliesMatchHistory'
<1>1. \A m \in Messages : \A c \in Cases :
        Cardinality(Places(Reply(m), history'[c])) = IF replies'[m] = c THEN 1 ELSE 0
  BY RepliesCounted
<1> QED BY <1>1 DEF RepliesMatchHistory, Places, Reply

\* An event of another type is no reply.
LEMMA NoReply ==
  ASSUME NEW type \in CaseEventType \ {"CLIENT_REPLY_RECEIVED"}, NEW ref, NEW m
  PROVE  Event(type, ref) # Reply(m)
  BY DEF Event, Reply

\* A history that has got such an event has its replies where they were.
LEMMA NoReplyAdded ==
  ASSUME NEW events \in Seq(CaseEvent),
         NEW type \in CaseEventType \ {"CLIENT_REPLY_RECEIVED"}, NEW ref, NEW m
  PROVE  Places(Reply(m), Append(events, Event(type, ref))) = Places(Reply(m), events)
  BY NoReply, OtherEvent

\* The commands other than the reply leave the replies.
LEMMA CommitOtherReplies ==
  ASSUME TypeOK, RepliesMatchHistory, NEW r \in Requests, CommitOther(r)
  PROVE  RepliesMatchHistory'
<1> DEFINE c == calls[r].case
<1>1. c \in Cases /\ history[c] \in Seq(CaseEvent) /\ history \in [Cases -> Seq(CaseEvent)]
  BY StagedCall DEF TypeOK, StoreTypeOK, CommitOther, CommitMark, CommitConfirm,
                    CommitCancel, CommitReassign, Staged
<1>2. UNCHANGED replies
  BY DEF CommitOther, CommitMark, CommitConfirm, CommitCancel, CommitReassign
<1>3. ASSUME NEW events, history' = [history EXCEPT ![c] = events],
             \A m \in Messages : Places(Reply(m), events) = Places(Reply(m), history[c])
      PROVE  RepliesMatchHistory'
  <2>1. \A m \in Messages : \A d \in Cases :
          Places(Reply(m), history'[d]) = Places(Reply(m), history[d])
    BY <1>1, <1>3
  <2> QED BY <1>2, <2>1, RepliesUndisturbed
<1>4. CASE CommitMark(r)
  <2>1. \A m : Places(Reply(m), Append(history[c], Event("CLIENT_REQUEST_SENT", None)))
                 = Places(Reply(m), history[c])
    BY <1>1, NoReplyAdded DEF CaseEventType
  <2> QED BY <1>3, <1>4, <2>1 DEF CommitMark, Commit
<1>5. CASE CommitConfirm(r)
  <2> DEFINE half == Append(history[c], Event("USER_ANSWER_CONFIRMED", None))
  <2>1. \A m : Places(Reply(m), half) = Places(Reply(m), history[c])
    BY <1>1, NoReplyAdded DEF CaseEventType
  <2>2. half \in Seq(CaseEvent)
    BY <1>1, HalfConfirmed
  <2> HIDE DEF half
  <2>3. \A m : Places(Reply(m), Append(half, Event("CASE_CLOSED", None)))
                 = Places(Reply(m), half)
    BY <2>2, NoReplyAdded DEF CaseEventType
  <2>4. history' = [history EXCEPT ![c] = Append(half, Event("CASE_CLOSED", None))]
    BY <1>5 DEF CommitConfirm, Commit, half
  <2> QED BY <1>3, <2>1, <2>3, <2>4
<1>6. CASE CommitCancel(r)
  <2>1. \A m : Places(Reply(m), Append(history[c], Event("CASE_CANCELLED", None)))
                 = Places(Reply(m), history[c])
    BY <1>1, NoReplyAdded DEF CaseEventType
  <2> QED BY <1>3, <1>6, <2>1 DEF CommitCancel, Commit
<1>7. CASE CommitReassign(r)
  <2>1. \A ref, m : Places(Reply(m), Append(history[c], Event("MODERATOR_CHANGED", ref)))
                      = Places(Reply(m), history[c])
    BY <1>1, NoReplyAdded DEF CaseEventType
  <2> QED BY <1>3, <1>7, <2>1 DEF CommitReassign, Commit
<1> QED BY <1>4, <1>5, <1>6, <1>7 DEF CommitOther

\* A reply is stored with its event, if no other call has stored its message.
LEMMA CommitReplyReplies ==
  ASSUME TypeOK, RepliesMatchHistory, NEW r \in Requests, CommitReply(r)
  PROVE  RepliesMatchHistory'
<1> DEFINE c == calls[r].case
           m == calls[r].arg
<1>1. /\ c \in Cases /\ m \in Messages /\ history[c] \in Seq(CaseEvent)
      /\ history \in [Cases -> Seq(CaseEvent)]
      /\ replies \in [Messages -> Cases \cup {None}]
  BY StagedCall DEF TypeOK, StoreTypeOK, CommitReply, Staged
<1>2. CASE UNCHANGED storeVars
  BY <1>2, RepliesUndisturbed DEF storeVars
<1>3. CASE ~ReplyTaken(m)
  <2>1. /\ replies[m] = None
        /\ replies' = [replies EXCEPT ![m] = c]
        /\ history' = [history EXCEPT ![c] = Append(history[c], Reply(m))]
    BY <1>3 DEF CommitReply, ReplyTaken, Commit, Reply
  <2>2. ASSUME NEW x \in Messages, NEW d \in Cases
        PROVE  Cardinality(Places(Reply(x), history'[d])) = IF replies'[x] = d THEN 1 ELSE 0
    <3>1. Cardinality(Places(Reply(x), history[d])) = IF replies[x] = d THEN 1 ELSE 0
      BY RepliesCounted
    <3>2. CASE x = m /\ d = c
      <4>1. Cardinality(Places(Reply(m), history[c])) = 0
        BY <2>1, <3>1, <3>2, <1>1, NoneAssumption
      <4>2. Cardinality(Places(Reply(m), Append(history[c], Reply(m)))) = 0 + 1
        BY <1>1, <4>1, SameEvent
      <4> QED BY <1>1, <2>1, <3>2, <4>2
    <3>3. CASE x # m /\ d = c
      <4>1. Reply(m) # Reply(x)
        BY <3>3 DEF Reply, Event
      <4>2. Places(Reply(x), Append(history[c], Reply(m))) = Places(Reply(x), history[c])
        BY <1>1, <4>1, OtherEvent
      <4> QED BY <1>1, <2>1, <3>1, <3>3, <4>2
    <3>4. CASE d # c
      BY <1>1, <2>1, <3>1, <3>4, NoneAssumption
    <3> QED BY <3>2, <3>3, <3>4
  <2> QED BY <2>2 DEF RepliesMatchHistory, Places, Reply
<1> QED BY <1>2, <1>3 DEF CommitReply

\* Every step keeps replies and history together.
LEMMA CaseNextReplies ==
  ASSUME TypeOK, RepliesMatchHistory, [CaseNext]_caseVars
  PROVE  RepliesMatchHistory'
<1>1. CASE UNCHANGED <<history, replies>>
  BY <1>1, RepliesUndisturbed
<1>2. ASSUME NEW c \in Cases, NEW p \in Assignees, CreateCase(c, p)
      PROVE  RepliesMatchHistory'
  <2>1. \A m : Places(Reply(m), Append(history[c], Event("CASE_CREATED", None)))
                 = Places(Reply(m), history[c])
    BY NoReplyAdded DEF TypeOK, StoreTypeOK, CaseEventType
  <2>2. \A m \in Messages : \A d \in Cases :
          Places(Reply(m), history'[d]) = Places(Reply(m), history[d])
    BY <1>2, <2>1 DEF CreateCase, TypeOK, StoreTypeOK
  <2> QED BY <1>2, <2>2, RepliesUndisturbed DEF CreateCase
<1> QED
  BY <1>1, <1>2, CommitOtherReplies, CommitReplyReplies, ReadingSteps
  DEF CaseNext, CommitCommand, CommitOther, Tick, storeVars, caseVars

(***************************************************************************)
(* A message id is stored once, with one event, in the case that owns it,  *)
(* however often and by however many calls it is received.                 *)
(***************************************************************************)
THEOREM RepliesAreRecordedOnce == CaseSpec => []RepliesMatchHistory
<1>1. CaseInit => RepliesMatchHistory
  <2> SUFFICES ASSUME CaseInit, NEW m \in Messages, NEW c \in Cases
               PROVE  Cardinality(Places(Reply(m), history[c]))
                        = IF replies[m] = c THEN 1 ELSE 0
    BY RepliesCounted
  <2>1. Places(Reply(m), history[c]) = {} /\ replies[m] # c
    BY NoneAssumption DEF CaseInit, StoreInit, Places
  <2> QED BY <2>1, FS_EmptySet
<1>2. TypeOK /\ RepliesMatchHistory /\ [CaseNext]_caseVars => RepliesMatchHistory'
  BY CaseNextReplies
<1> QED BY <1>1, <1>2, CaseTypeCorrect, PTL DEF CaseSpec

-----------------------------------------------------------------------------
(* The moderator. *)

\* The last reassignment of a history, if there is one, names this moderator.
NamesModerator(events, moderator) ==
  \A i \in DOMAIN events :
    (/\ events[i].type = "MODERATOR_CHANGED"
     /\ \A j \in DOMAIN events : j > i => events[j].type # "MODERATOR_CHANGED")
    => events[i].ref[2] = moderator

(***************************************************************************)
(* The inductive invariant: a row that is created finds no events of an    *)
(* earlier case.                                                           *)
(***************************************************************************)
HistoryBegins == \A c \in Cases : cases[c] = None => history[c] = << >>
ModeratorOK ==
  HistoryBegins /\ \A c \in Cases : NamesModerator(history[c], cases[c].moderator)

\* The property is the second part of the invariant.
LEMMA ModeratorNamed == ModeratorOK => ModeratorMatchesHistory
  BY DEF ModeratorOK, NamesModerator, ModeratorMatchesHistory

\* Another event does not change who is named.
LEMMA OtherEventNames ==
  ASSUME NEW events \in Seq(CaseEvent), NEW event, NEW moderator,
         event.type # "MODERATOR_CHANGED", NamesModerator(events, moderator)
  PROVE  NamesModerator(Append(events, event), moderator)
  BY DEF NamesModerator

\* A reassignment names the new moderator.
LEMMA ReassignmentNames ==
  ASSUME NEW events \in Seq(CaseEvent), NEW old, NEW moderator
  PROVE  NamesModerator(Append(events, Event("MODERATOR_CHANGED", <<old, moderator>>)),
                        moderator)
<1> DEFINE event == Event("MODERATOR_CHANGED", <<old, moderator>>)
           longer == Append(events, event)
<1>1. event.type = "MODERATOR_CHANGED" /\ event.ref[2] = moderator
  BY DEF Event
<1> HIDE DEF event
<1>2. /\ DOMAIN longer = 1..(Len(events) + 1) /\ longer[Len(events) + 1] = event
      /\ Len(events) \in Nat
  OBVIOUS
<1> HIDE DEF longer
<1>3. NamesModerator(longer, moderator)
  BY <1>1, <1>2 DEF NamesModerator
<1> QED BY <1>3 DEF longer, event

\* A transaction keeps the invariant if its events name the moderator of its row.
LEMMA CommitNames ==
  ASSUME TypeOK, ModeratorOK, NEW r \in Requests, calls[r].phase = "staged",
         NEW row, row # None, NEW events, Commit(r, row, events),
         NamesModerator(events, row.moderator)
  PROVE  ModeratorOK'
<1> DEFINE c == calls[r].case
<1>1. c \in Cases
  BY StagedCall
<1>2. /\ cases'[c] = row /\ history'[c] = events
      /\ \A d \in Cases \ {c} : cases'[d] = cases[d] /\ history'[d] = history[d]
  BY <1>1 DEF Commit, TypeOK, StoreTypeOK
<1>3. HistoryBegins'
  BY <1>2 DEF ModeratorOK, HistoryBegins
<1>4. ASSUME NEW d \in Cases PROVE NamesModerator(history'[d], cases'[d].moderator)
  BY <1>2 DEF ModeratorOK
<1>5. \A d \in Cases : NamesModerator(history[d], cases[d].moderator)'
  BY <1>4 DEF NamesModerator
<1> QED BY <1>3, <1>5 DEF ModeratorOK

\* Every row that is written is a row, and all but one keep the stored moderator.
LEMMA ModeratorsWritten ==
  ASSUME NEW stored \in CaseRow, NEW loaded \in CaseRow, NEW now, NEW moderator
  PROVE  /\ SentRow(stored, loaded, now).moderator = stored.moderator
         /\ RepliedRow(stored, loaded, now).moderator = stored.moderator
         /\ ClosedRow(stored, loaded).moderator = stored.moderator
         /\ CancelledRow(stored, loaded).moderator = stored.moderator
         /\ ReassignedRow(stored, loaded, moderator).moderator = moderator
  BY DEF SentRow, RepliedRow, ClosedRow, CancelledRow, ReassignedRow, CaseRow

\* Every writing transaction keeps moderator and history together.
LEMMA CommitCommandNames ==
  ASSUME TypeOK, ModeratorOK, NEW r \in Requests, CommitCommand(r)
  PROVE  ModeratorOK'
<1> DEFINE c == calls[r].case
           stored == cases[c]
           loaded == calls[r].loaded
           now == calls[r].now
           moderator == calls[r].arg
<1>1. /\ calls[r].phase = "staged" /\ c \in Cases /\ stored \in CaseRow /\ loaded \in CaseRow
      /\ history[c] \in Seq(CaseEvent)
      /\ calls[r].op = "reassign" => moderator \in Assignees
  BY StagedCall DEF CommitCommand, CommitMark, CommitReply, CommitConfirm, CommitCancel,
                    CommitReassign, Staged
<1>2. now \in Nat /\ None \in Assignees
  BY DEF TypeOK, Call, Assignees
<1>3. NamesModerator(history[c], stored.moderator)
  BY <1>1 DEF ModeratorOK
<1>4. /\ SentRow(stored, loaded, now) # None /\ RepliedRow(stored, loaded, now) # None
      /\ ClosedRow(stored, loaded) # None /\ CancelledRow(stored, loaded) # None
      /\ \A m \in Assignees : ReassignedRow(stored, loaded, m) # None
  <2>1. \A m \in Assignees :
          /\ SentRow(stored, loaded, now) \in CaseRow
          /\ RepliedRow(stored, loaded, now) \in CaseRow
          /\ ClosedRow(stored, loaded) \in CaseRow
          /\ CancelledRow(stored, loaded) \in CaseRow
          /\ ReassignedRow(stored, loaded, m) \in CaseRow
    BY <1>1, <1>2, WrittenRows
  <2> HIDE DEF c, stored, loaded, now, moderator
  <2> QED BY <1>2, <2>1, NoRowAssumption
<1>5. \A type, ref : type # "MODERATOR_CHANGED" =>
        NamesModerator(Append(history[c], Event(type, ref)), stored.moderator)
  BY <1>1, <1>3, OtherEventNames DEF Event
<1>6. CASE CommitMark(r)
  <2>1. NamesModerator(Append(history[c], Event("CLIENT_REQUEST_SENT", None)),
                       SentRow(stored, loaded, now).moderator)
    <3>1. SentRow(stored, loaded, now).moderator = stored.moderator
      BY <1>1 DEF SentRow, CaseRow
    <3> HIDE DEF c, stored, loaded, now, moderator
    <3> QED BY <1>5, <3>1
  <2>2. Commit(r, SentRow(stored, loaded, now),
               Append(history[c], Event("CLIENT_REQUEST_SENT", None)))
    BY <1>6 DEF CommitMark
  <2> QED BY <1>1, <1>4, <2>1, <2>2, CommitNames
<1>7. CASE CommitReply(r)
  <2>1. CASE UNCHANGED storeVars
    BY <2>1 DEF storeVars, ModeratorOK, HistoryBegins, NamesModerator
  <2>2. CASE Commit(r, RepliedRow(stored, loaded, now),
                    Append(history[c], Event("CLIENT_REPLY_RECEIVED", calls[r].arg)))
    <3>1. NamesModerator(Append(history[c], Event("CLIENT_REPLY_RECEIVED", calls[r].arg)),
                         RepliedRow(stored, loaded, now).moderator)
      <4>1. RepliedRow(stored, loaded, now).moderator = stored.moderator
        BY <1>1 DEF RepliedRow, CaseRow
      <4> HIDE DEF c, stored, loaded, now, moderator
      <4> QED BY <1>5, <4>1
    <3> QED BY <1>1, <1>4, <2>2, <3>1, CommitNames
  <2> QED BY <1>7, <2>1, <2>2 DEF CommitReply
<1>8. CASE CommitConfirm(r)
  <2> DEFINE half == Append(history[c], Event("USER_ANSWER_CONFIRMED", None))
  <2>1. half \in Seq(CaseEvent) /\ NamesModerator(half, stored.moderator)
    BY <1>1, <1>5, HalfConfirmed
  <2> HIDE DEF half
  <2>2. NamesModerator(Append(half, Event("CASE_CLOSED", None)), stored.moderator)
    BY <2>1, OtherEventNames DEF Event
  <2>3. Commit(r, ClosedRow(stored, loaded), Append(half, Event("CASE_CLOSED", None)))
    BY <1>8 DEF CommitConfirm, half
  <2> QED BY <1>1, <1>4, <2>2, <2>3, ModeratorsWritten, CommitNames
<1>9. CASE CommitCancel(r)
  BY <1>1, <1>4, <1>5, <1>9, ModeratorsWritten, CommitNames DEF CommitCancel
<1>10. CASE CommitReassign(r)
  <2>1. moderator \in Assignees
    BY <1>1, <1>10 DEF CommitReassign, Staged
  <2>2. NamesModerator(Append(history[c], Event("MODERATOR_CHANGED",
                                               <<loaded.moderator, moderator>>)), moderator)
    BY <1>1, ReassignmentNames
  <2> QED BY <1>1, <1>4, <1>10, <2>1, <2>2, ModeratorsWritten, CommitNames DEF CommitReassign
<1> QED BY <1>6, <1>7, <1>8, <1>9, <1>10 DEF CommitCommand

\* Every step keeps moderator and history together.
LEMMA CaseNextNames ==
  ASSUME TypeOK, ModeratorOK, [CaseNext]_caseVars
  PROVE  ModeratorOK'
<1>1. CASE UNCHANGED <<cases, history>>
  BY <1>1 DEF ModeratorOK, HistoryBegins, NamesModerator
<1>2. ASSUME NEW c \in Cases, NEW m \in Assignees, CreateCase(c, m)
      PROVE  ModeratorOK'
  <2>1. /\ history[c] = << >> /\ history'[c] = Append(<< >>, Event("CASE_CREATED", None))
        /\ cases'[c] # None
        /\ \A d \in Cases \ {c} : cases'[d] = cases[d] /\ history'[d] = history[d]
    <3>1. cases'[c] \in CaseRow
      BY <1>2 DEF CreateCase, TypeOK, StoreTypeOK, CaseRow, CaseStatus, Deadline
    <3> QED BY <1>2, <3>1, NoRowAssumption
            DEF CreateCase, ModeratorOK, HistoryBegins, TypeOK, StoreTypeOK
  <2>2. NamesModerator(history'[c], cases'[c].moderator)
    BY <2>1 DEF NamesModerator, Event
  <2>3. \A d \in Cases : NamesModerator(history'[d], cases'[d].moderator)
    BY <2>1, <2>2 DEF ModeratorOK
  <2>4. \A d \in Cases : NamesModerator(history[d], cases[d].moderator)'
    BY <2>3 DEF NamesModerator
  <2> QED BY <2>1, <2>4 DEF ModeratorOK, HistoryBegins
<1> QED
  BY <1>1, <1>2, CommitCommandNames, ReadingSteps DEF CaseNext, Tick, storeVars, caseVars

(***************************************************************************)
(* The moderator of a case is the one of its last reassignment, although a *)
(* command that had loaded another one writes the row later.               *)
(***************************************************************************)
THEOREM ModeratorIsAudited == CaseSpec => []ModeratorMatchesHistory
<1>1. CaseInit => ModeratorOK
  BY DEF CaseInit, StoreInit, ModeratorOK, HistoryBegins, NamesModerator
<1>2. TypeOK /\ ModeratorOK /\ [CaseNext]_caseVars => ModeratorOK'
  BY CaseNextNames
<1> QED BY <1>1, <1>2, ModeratorNamed, CaseTypeCorrect, PTL DEF CaseSpec

-----------------------------------------------------------------------------
(* Answers. *)

\* The answer promises a trace in these histories.
Promises(call) ==
  call.answer = "applied" \/ (call.answer = "already" /\ call.op # "reassign")
Traced(call, histories) ==
  Promises(call) =>
    /\ call.case \in Cases
    /\ \E i \in DOMAIN histories[call.case] :
         IsTrace(histories[call.case][i], call.op, call.arg)

\* The inductive invariant: a promise is about a case.
AnswersOK == \A r \in Requests : Traced(calls[r], history)

\* What was traced stays traced.
LEMMA StaysTraced ==
  ASSUME HistoriesGrow, NEW call, Traced(call, history)
  PROVE  Traced(call, history')
  BY DEF HistoriesGrow, Kept, Traced

\* One call goes on as newCall, every other call as it was.
LEMMA CallStaysTraced ==
  ASSUME TypeOK, AnswersOK, HistoriesGrow, NEW r \in Requests, NEW newCall,
         calls' = [calls EXCEPT ![r] = newCall], Traced(newCall, history')
  PROVE  AnswersOK'
<1>1. ASSUME NEW q \in Requests PROVE Traced(calls'[q], history')
  <2>1. CASE q = r
    BY <2>1 DEF TypeOK
  <2>2. CASE q # r
    <3>1. calls'[q] = calls[q] /\ Traced(calls[q], history)
      BY <2>2 DEF TypeOK, AnswersOK
    <3> QED BY <3>1, StaysTraced
  <2> QED BY <2>1, <2>2
<1>2. \A q \in Requests : Traced(calls[q], history)'
  BY <1>1 DEF Traced, Promises, IsTrace, Event
<1> QED BY <1>2 DEF AnswersOK

\* The call ends with this answer: it has to be traced if it is a promise.
LEMMA AnswerTraced ==
  ASSUME TypeOK, AnswersOK, HistoriesGrow, NEW r \in Requests, NEW op, NEW c \in Cases,
         NEW arg, NEW answer, Respond(r, op, c, arg, answer),
         (answer = "applied" \/ (answer = "already" /\ op # "reassign")) =>
           \E i \in DOMAIN history'[c] : IsTrace(history'[c][i], op, arg)
  PROVE  AnswersOK'
<1> DEFINE newCall == [Idle EXCEPT !.phase = "answered", !.op = op, !.case = c,
                                   !.arg = arg, !.answer = answer]
<1>1. /\ newCall.op = op /\ newCall.case = c /\ newCall.arg = arg /\ newCall.answer = answer
  BY DEF Idle
<1>2. calls' = [calls EXCEPT ![r] = newCall]
  BY DEF Respond
<1> HIDE DEF newCall
<1>3. Traced(newCall, history')
  BY <1>1 DEF Traced, Promises
<1> QED BY <1>2, <1>3, CallStaysTraced

\* A case in the status a command leads to has the trace of that command.
LEMMA ReachedIsTraced ==
  ASSUME AuditMatchesStatus, NEW c \in Cases, cases[c] # None,
         NEW op \in {"mark", "confirm", "cancel"}, Reached(cases[c], Target[op])
  PROVE  \E i \in DOMAIN history[c] : IsTrace(history[c][i], op, None)
<1>1. PICK i \in DOMAIN history[c] : Reports(history[c][i]) = Target[op]
  BY DEF AuditMatchesStatus, Audited, Reached
<1>2. Target[op] \in {"WAITING_CLIENT", "CLOSED", "CANCELLED"} /\ Target[op] # None
  BY NoRowAssumption DEF Target, CaseStatus
<1>3. CASE op = "mark"
  <2>1. Target[op] = "WAITING_CLIENT"
    BY <1>3 DEF Target
  <2>2. history[c][i].type = "CLIENT_REQUEST_SENT"
    BY <1>1, <1>2, <2>1 DEF Reports
  <2> QED BY <1>3, <2>2 DEF IsTrace
<1>4. CASE op = "confirm"
  <2>1. Target[op] = "CLOSED"
    BY <1>4 DEF Target
  <2>2. history[c][i].type = "CASE_CLOSED"
    BY <1>1, <1>2, <2>1 DEF Reports
  <2> QED BY <1>4, <2>2 DEF IsTrace
<1>5. CASE op = "cancel"
  <2>1. Target[op] = "CANCELLED"
    BY <1>5 DEF Target
  <2>2. history[c][i].type = "CASE_CANCELLED"
    BY <1>1, <1>2, <2>1 DEF Reports
  <2> QED BY <1>5, <2>2 DEF IsTrace
<1> QED BY <1>3, <1>4, <1>5

\* A message the case owns has its trace.
LEMMA OwnedIsTraced ==
  ASSUME TypeOK, RepliesMatchHistory, NEW m \in Messages, NEW c \in Cases, replies[m] = c
  PROVE  \E i \in DOMAIN history[c] : IsTrace(history[c][i], "reply", m)
<1>1. history[c] \in Seq(CaseEvent)
  BY DEF TypeOK, StoreTypeOK
<1>2. Cardinality(Places(Reply(m), history[c])) = 1
  BY RepliesCounted
<1>3. \E i \in DOMAIN history[c] : history[c][i] = Reply(m)
  BY <1>1, <1>2, CountedIsThere
<1> QED BY <1>3 DEF IsTrace, Reply

\* A call that goes on promises nothing.
LEMMA HoldTraced ==
  ASSUME TypeOK, AnswersOK, HistoriesGrow, NEW r \in Requests, NEW phase, NEW op,
         NEW c \in Cases, NEW arg, Hold(r, phase, op, c, arg)
  PROVE  AnswersOK'
<1> DEFINE newCall == [phase |-> phase, op |-> op, case |-> c, arg |-> arg,
                       loaded |-> cases[c], now |-> clock, answer |-> None]
<1>1. calls' = [calls EXCEPT ![r] = newCall] /\ newCall.answer = None
  BY DEF Hold
<1> HIDE DEF newCall
<1>2. Traced(newCall, history')
  BY <1>1, NoAnswerAssumption DEF Traced, Promises, Answers
<1> QED BY <1>1, <1>2, CallStaysTraced

\* The reading steps promise what is stored.
LEMMA ReceiveTraced ==
  ASSUME TypeOK, AuditMatchesStatus, AnswersOK, NEW r \in Requests, NEW c \in Cases,
         Receive(r, c)
  PROVE  AnswersOK'
<1>1. UNCHANGED storeVars
  BY ReadingSteps
<1>2. HistoriesGrow /\ UNCHANGED history
  BY <1>1, SameHistories DEF storeVars
<1>3. ASSUME NEW op, NEW arg, NEW answer, Respond(r, op, c, arg, answer),
             answer # "applied", answer # "already" \/ op = "reassign"
      PROVE  AnswersOK'
  BY <1>2, <1>3, AnswerTraced
<1>4. ASSUME NEW op \in {"mark", "confirm", "cancel"}, ReceiveTransition(r, op, c)
      PROVE  AnswersOK'
  <2>1. CASE Reached(cases[c], Target[op]) /\ Respond(r, op, c, None, "already")
    <3>1. \E i \in DOMAIN history'[c] : IsTrace(history'[c][i], op, None)
      BY <1>2, <1>4, <2>1, ReachedIsTraced DEF ReceiveTransition
    <3> QED BY <1>2, <2>1, <3>1, AnswerTraced
  <2>2. CASE Respond(r, op, c, None, "rejected")
    BY <1>3, <2>2
  <2>3. CASE Hold(r, "staged", op, c, None)
    BY <1>2, <2>3, HoldTraced
  <2> QED BY <1>4, <2>1, <2>2, <2>3 DEF ReceiveTransition
<1>5. ASSUME NEW op, NEW arg, RejectUnknownCase(r, op, c, arg) PROVE AnswersOK'
  BY <1>3, <1>5 DEF RejectUnknownCase
<1>6. ASSUME NEW m \in Messages, ReceiveReply(r, c, m) PROVE AnswersOK'
  BY <1>2, <1>6, HoldTraced DEF ReceiveReply
<1>7. ASSUME NEW m \in Assignees, ReceiveReassign(r, c, m) PROVE AnswersOK'
  BY <1>2, <1>3, <1>7, HoldTraced DEF ReceiveReassign
<1> QED BY <1>4, <1>5, <1>6, <1>7 DEF Receive

\* What is said of a stored message is so.
LEMMA ReplyAnswerTraced ==
  ASSUME TypeOK, RepliesMatchHistory, AnswersOK, NEW r \in Requests, UNCHANGED storeVars,
         calls[r].op = "reply", calls[r].case \in Cases, calls[r].arg \in Messages,
         Finish(r, ReplyAnswer(calls[r].arg, calls[r].case))
  PROVE  AnswersOK'
<1> DEFINE c == calls[r].case
           m == calls[r].arg
<1>1. HistoriesGrow /\ UNCHANGED history
  BY SameHistories DEF storeVars
<1>2. Respond(r, "reply", c, m, ReplyAnswer(m, c))
  BY DEF Finish
<1>3. ReplyAnswer(m, c) # "applied" /\ (ReplyAnswer(m, c) = "already" => replies[m] = c)
  BY DEF ReplyAnswer
<1>4. replies[m] = c => \E i \in DOMAIN history'[c] : IsTrace(history'[c][i], "reply", m)
  BY <1>1, OwnedIsTraced
<1> QED BY <1>1, <1>2, <1>3, <1>4, AnswerTraced

\* The lookup promises what is stored.
LEMMA LookUpTraced ==
  ASSUME TypeOK, RepliesMatchHistory, AnswersOK, NEW r \in Requests, LookUpReply(r)
  PROVE  AnswersOK'
<1> DEFINE call == calls[r]
<1>1. UNCHANGED storeVars
  BY ReadingSteps
<1>2. HistoriesGrow /\ UNCHANGED history
  BY <1>1, SameHistories DEF storeVars
<1>3. call.op = "reply" /\ call.case \in Cases /\ call.arg \in Messages
  BY DEF LookUpReply, TypeOK, CallOK
<1>4. CASE Finish(r, ReplyAnswer(call.arg, call.case))
  BY <1>1, <1>3, <1>4, ReplyAnswerTraced
<1>5. CASE Finish(r, "rejected")
  BY <1>2, <1>3, <1>5, AnswerTraced DEF Finish
<1>6. CASE calls' = [calls EXCEPT ![r].phase = "staged", ![r].now = clock]
  <2> DEFINE newCall == [call EXCEPT !.phase = "staged", !.now = clock]
  <2>1. call \in Call
    BY DEF TypeOK
  <2>2. /\ newCall.op = call.op /\ newCall.case = call.case /\ newCall.arg = call.arg
        /\ newCall.answer = call.answer
    BY <2>1 DEF Call
  <2>3. calls' = [calls EXCEPT ![r] = newCall]
    BY <1>6, <2>1 DEF TypeOK, Call
  <2> HIDE DEF newCall
  <2>4. Traced(newCall, history')
    BY <1>2, <2>2 DEF AnswersOK, Traced, Promises
  <2> QED BY <1>2, <2>3, <2>4, CallStaysTraced
<1> QED BY <1>4, <1>5, <1>6 DEF LookUpReply

\* The last event of a history is there.
LEMMA LastIsThere ==
  ASSUME NEW events \in Seq(CaseEvent), NEW event
  PROVE  \E i \in DOMAIN Append(events, event) : Append(events, event)[i] = event
<1>1. Len(events) + 1 \in DOMAIN Append(events, event)
  OBVIOUS
<1>2. Append(events, event)[Len(events) + 1] = event
  OBVIOUS
<1> QED BY <1>1, <1>2

\* What is stored leaves its trace.
LEMMA CommitTraced ==
  ASSUME TypeOK, RepliesMatchHistory, AnswersOK, HistoriesGrow, NEW r \in Requests,
         CommitCommand(r)
  PROVE  AnswersOK'
<1> DEFINE c == calls[r].case
           op == calls[r].op
           arg == calls[r].arg
<1>1. /\ calls[r].phase = "staged" /\ c \in Cases /\ history[c] \in Seq(CaseEvent)
      /\ op = "reply" => arg \in Messages
  BY StagedCall DEF CommitCommand, CommitMark, CommitReply, CommitConfirm, CommitCancel,
                    CommitReassign, Staged
<1>2. ASSUME NEW row, NEW events \in Seq(CaseEvent), NEW event,
             Commit(r, row, Append(events, event)), IsTrace(event, op, arg)
      PROVE  AnswersOK'
  <2>1. history'[c] = Append(events, event) /\ Respond(r, op, c, arg, "applied")
    BY <1>1, <1>2 DEF Commit, Finish, TypeOK, StoreTypeOK
  <2>2. \E i \in DOMAIN history'[c] : IsTrace(history'[c][i], op, arg)
    BY <1>2, <2>1, LastIsThere
  <2> QED BY <1>1, <2>1, <2>2, AnswerTraced
<1>3. CASE CommitMark(r)
  <2>1. IsTrace(Event("CLIENT_REQUEST_SENT", None), op, arg)
    BY <1>3 DEF CommitMark, Staged, IsTrace, Event
  <2> QED BY <1>1, <1>2, <1>3, <2>1 DEF CommitMark
<1>4. CASE CommitReply(r)
  <2>1. op = "reply" /\ IsTrace(Event("CLIENT_REPLY_RECEIVED", arg), op, arg)
    BY <1>4 DEF CommitReply, Staged, IsTrace
  <2>2. CASE ReplyTaken(arg)
    BY <1>1, <1>4, <2>1, <2>2, ReplyAnswerTraced DEF CommitReply
  <2>3. CASE ~ReplyTaken(arg)
    BY <1>1, <1>2, <1>4, <2>1, <2>3 DEF CommitReply
  <2> QED BY <2>2, <2>3
<1>5. CASE CommitConfirm(r)
  <2> DEFINE half == Append(history[c], Event("USER_ANSWER_CONFIRMED", None))
  <2>1. IsTrace(Event("CASE_CLOSED", None), op, arg)
    BY <1>5 DEF CommitConfirm, Staged, IsTrace, Event
  <2>2. half \in Seq(CaseEvent)
    BY <1>1, HalfConfirmed
  <2>3. Commit(r, ClosedRow(cases[c], calls[r].loaded), Append(half, Event("CASE_CLOSED", None)))
    BY <1>5 DEF CommitConfirm
  <2> HIDE DEF half
  <2> QED BY <1>2, <2>1, <2>2, <2>3
<1>6. CASE CommitCancel(r)
  <2>1. IsTrace(Event("CASE_CANCELLED", None), op, arg)
    BY <1>6 DEF CommitCancel, Staged, IsTrace, Event
  <2> QED BY <1>1, <1>2, <1>6, <2>1 DEF CommitCancel
<1>7. CASE CommitReassign(r)
  <2>1. IsTrace(Event("MODERATOR_CHANGED", <<calls[r].loaded.moderator, arg>>), op, arg)
    BY <1>7 DEF CommitReassign, Staged, IsTrace, Event
  <2> QED BY <1>1, <1>2, <1>7, <2>1 DEF CommitReassign
<1> QED BY <1>3, <1>4, <1>5, <1>6, <1>7 DEF CommitCommand

\* Every step keeps the promises.
LEMMA CaseNextTraced ==
  ASSUME TypeOK, AuditMatchesStatus, RepliesMatchHistory, AnswersOK, [CaseNext]_caseVars
  PROVE  AnswersOK'
<1>1. HistoriesGrow
  BY CaseNextGrows
<1>2. CASE UNCHANGED calls
  <2>1. \A r \in Requests : Traced(calls'[r], history')
    BY <1>1, <1>2, StaysTraced DEF AnswersOK
  <2>2. \A r \in Requests : Traced(calls[r], history)'
    BY <2>1 DEF Traced, Promises, IsTrace, Event
  <2> QED BY <2>2 DEF AnswersOK
<1>3. ASSUME NEW r \in Requests, RollBack(r) PROVE AnswersOK'
  <2>1. calls[r].case \in Cases
    BY <1>3 DEF RollBack, TypeOK, CallOK
  <2> QED BY <1>1, <1>3, <2>1, AnswerTraced DEF RollBack, Finish
<1>4. ASSUME NEW r \in Requests, Return(r) PROVE AnswersOK'
  <2>1. Traced(Idle, history')
    BY NoAnswerAssumption DEF Traced, Promises, Idle, Answers
  <2> QED BY <1>1, <1>4, <2>1, CallStaysTraced DEF Return
<1> QED
  BY <1>1, <1>2, <1>3, <1>4, ReceiveTraced, LookUpTraced, CommitTraced
  DEF CaseNext, CreateCase, caseVars

(***************************************************************************)
(* Whoever is told that a command is applied, or was already, finds its    *)
(* event in the history, whatever overlapped with it.                      *)
(***************************************************************************)
THEOREM AnswersHold == CaseSpec => []AnswersAreDurable
<1>1. CaseInit => AnswersOK
  BY NoAnswerAssumption DEF CaseInit, AnswersOK, Traced, Promises, Idle, Answers
<1>2. TypeOK /\ AuditMatchesStatus /\ RepliesMatchHistory /\ AnswersOK
        /\ [CaseNext]_caseVars => AnswersOK'
  BY CaseNextTraced
<1>3. AnswersOK => AnswersAreDurable
  BY DEF AnswersOK, Traced, Promises, AnswersAreDurable
<1> QED
  BY <1>1, <1>2, <1>3, CaseTypeCorrect, StatusIsAudited, RepliesAreRecordedOnce, PTL
  DEF CaseSpec

-----------------------------------------------------------------------------
(* The story of a case, step by step. *)

\* The deadlines that run are those of the wait.
Timed(row) ==
  /\ row.clientDeadline # None <=> row.status = "WAITING_CLIENT"
  /\ row.moderatorDeadline # None <=> row.status = "WAITING_MODERATOR"

\* What was added to a history reports no status ...
NoneReported(events, longer) ==
  /\ Kept(events, longer)
  /\ \A i \in DOMAIN longer : i \notin DOMAIN events => Reports(longer[i]) = None

\* ... or reports this one, once.
OneReported(events, longer, status) ==
  /\ Kept(events, longer)
  /\ \E i \in DOMAIN longer :
       /\ i \notin DOMAIN events /\ Reports(longer[i]) = status
       /\ \A j \in DOMAIN longer : j \notin DOMAIN events /\ j # i => Reports(longer[j]) = None

\* A step that leaves status and deadlines of the case,
Stays(c) ==
  /\ cases[c] = None => cases'[c] = None /\ history'[c] = history[c]
  /\ cases[c] # None =>
       /\ cases'[c] # None
       /\ cases'[c].status = cases[c].status
       /\ cases'[c].clientDeadline = cases[c].clientDeadline
       /\ cases'[c].moderatorDeadline = cases[c].moderatorDeadline
  /\ NoneReported(history[c], history'[c])

\* one that takes it to another status, and says so,
Moves(c) ==
  /\ cases[c] # None /\ cases'[c] # None
  /\ Allowed(cases[c].status, cases'[c].status)
  /\ Timed(cases'[c])
  /\ OneReported(history[c], history'[c], cases'[c].status)

\* and one that creates it.
Appears(c) ==
  /\ cases[c] = None /\ history[c] = << >>
  /\ cases'[c] # None /\ cases'[c].status = "NEW" /\ Timed(cases'[c])
  /\ OneReported(history[c], history'[c], "NEW")

\* At most one case goes on at a time.
StoryStep ==
  \/ \A c \in Cases : Stays(c)
  \/ \E c \in Cases : (Moves(c) \/ Appears(c)) /\ \A d \in Cases \ {c} : Stays(d)

\* The statuses a case in this one may have had.
Earlier ==
  [NEW |-> {"NEW"}, WAITING_CLIENT |-> {"NEW", "WAITING_CLIENT"},
   WAITING_MODERATOR |-> {"NEW", "WAITING_CLIENT", "WAITING_MODERATOR"},
   CLOSED |-> {"NEW", "WAITING_CLIENT", "WAITING_MODERATOR", "CLOSED"},
   CANCELLED |-> CaseStatus]

Behind(events, status) ==
  \A i \in DOMAIN events : Reports(events[i]) \in {None} \cup Earlier[status]

\* The state machine allows every step from one status event to the next.
Legal(events) ==
  \A i, j \in DOMAIN events :
    (/\ i < j
     /\ Reports(events[i]) # None /\ Reports(events[j]) # None
     /\ \A k \in DOMAIN events : i < k /\ k < j => Reports(events[k]) = None)
    => Allowed(Reports(events[i]), Reports(events[j]))

(***************************************************************************)
(* The inductive invariant: what has been reported lies behind the case,   *)
(* so that it enters no status twice.                                      *)
(***************************************************************************)
StoryOK ==
  /\ HistoryBegins
  /\ \A c \in Cases : Legal(history[c])
  /\ \A c \in Cases :
       cases[c] # None => Timed(cases[c]) /\ Behind(history[c], cases[c].status)

\* An event that is appended is reported, or nothing is.
LEMMA AppendReports ==
  ASSUME NEW events \in Seq(CaseEvent), NEW event
  PROVE  /\ Reports(event) = None => NoneReported(events, Append(events, event))
         /\ OneReported(events, Append(events, event), Reports(event))
<1> DEFINE longer == Append(events, event)
<1>1. /\ Kept(events, longer)
      /\ Len(events) + 1 \in DOMAIN longer /\ Len(events) + 1 \notin DOMAIN events
      /\ longer[Len(events) + 1] = event
      /\ \A j \in DOMAIN longer : j \notin DOMAIN events => j = Len(events) + 1
  BY AppendKeeps
<1> HIDE DEF longer
<1>2. Reports(event) = None => NoneReported(events, longer)
  BY <1>1 DEF NoneReported
<1>3. OneReported(events, longer, Reports(event))
  BY <1>1 DEF OneReported
<1> QED BY <1>2, <1>3 DEF longer

\* A confirmation reports the closing, once.
LEMMA ConfirmedReports ==
  ASSUME NEW events \in Seq(CaseEvent)
  PROVE  OneReported(events, Confirmed(events), "CLOSED")
<1> DEFINE half == Append(events, Event("USER_ANSWER_CONFIRMED", None))
           longer == Append(half, Event("CASE_CLOSED", None))
<1>1. half \in Seq(CaseEvent)
  BY HalfConfirmed
<1>2. /\ Reports(Event("USER_ANSWER_CONFIRMED", None)) = None
      /\ Reports(Event("CASE_CLOSED", None)) = "CLOSED"
  BY DEF Reports, Event
<1>3. NoneReported(events, half)
  BY <1>2, AppendReports
<1> HIDE DEF half
<1>4. OneReported(half, longer, "CLOSED")
  BY <1>1, <1>2, AppendReports
<1> HIDE DEF longer
<1>5. OneReported(events, longer, "CLOSED")
  BY <1>3, <1>4 DEF NoneReported, OneReported, Kept
<1> QED BY <1>5 DEF longer, half, Confirmed

-----------------------------------------------------------------------------
(* Every step of the story keeps it so. *)

\* The state machine leads to a status that is not behind the case.
LEMMA AllowedIsAhead ==
  ASSUME NEW from \in CaseStatus, NEW to \in CaseStatus, Allowed(from, to)
  PROVE  /\ to # from /\ to \notin Earlier[from]
         /\ Earlier[from] \subseteq Earlier[to] /\ to \in Earlier[to]
  BY DEF Allowed, Earlier, CaseStatus

\* Nothing reported, nothing changed.
LEMMA SilenceIsLegal ==
  ASSUME NEW events \in Seq(CaseEvent), NEW longer \in Seq(CaseEvent), NEW status,
         NoneReported(events, longer)
  PROVE  /\ Legal(events) => Legal(longer)
         /\ Behind(events, status) => Behind(longer, status)
<1>1. Kept(events, longer) /\ \A i \in DOMAIN longer :
        i \in DOMAIN events \/ Reports(longer[i]) = None
  BY DEF NoneReported
<1>2. Behind(events, status) => Behind(longer, status)
  BY <1>1 DEF Behind, Kept
<1>3. ASSUME Legal(events), NEW i \in DOMAIN longer, NEW j \in DOMAIN longer, i < j,
             Reports(longer[i]) # None, Reports(longer[j]) # None,
             \A k \in DOMAIN longer : i < k /\ k < j => Reports(longer[k]) = None
      PROVE  Allowed(Reports(longer[i]), Reports(longer[j]))
  <2>1. i \in DOMAIN events /\ j \in DOMAIN events
    BY <1>1, <1>3
  <2>2. \A k \in DOMAIN events : k \in DOMAIN longer /\ longer[k] = events[k]
    BY <1>1 DEF Kept
  <2>3. \A k \in DOMAIN events : i < k /\ k < j => Reports(events[k]) = None
    BY <1>3, <2>2
  <2>4. Reports(events[i]) # None /\ Reports(events[j]) # None
    BY <1>3, <2>1, <2>2
  <2>5. Allowed(Reports(events[i]), Reports(events[j]))
    BY <1>3, <2>1, <2>3, <2>4 DEF Legal
  <2> QED BY <2>1, <2>2, <2>5
<1> QED BY <1>2, <1>3 DEF Legal

\* A status that the state machine allows from the one audited is a legal continuation.
LEMMA NextIsLegal ==
  ASSUME NEW events \in Seq(CaseEvent), NEW longer \in Seq(CaseEvent),
         NEW from \in CaseStatus, NEW to \in CaseStatus, Allowed(from, to),
         Audited(from, events), Legal(events), Behind(events, from),
         OneReported(events, longer, to)
  PROVE  Legal(longer) /\ Behind(longer, to)
<1>1. PICK new \in DOMAIN longer :
        /\ new \notin DOMAIN events /\ Reports(longer[new]) = to
        /\ \A j \in DOMAIN longer : j \notin DOMAIN events /\ j # new => Reports(longer[j]) = None
  BY DEF OneReported
<1>2. \A k \in DOMAIN events : k \in DOMAIN longer /\ longer[k] = events[k]
  BY DEF OneReported, Kept
<1>3. Behind(longer, to)
  BY <1>1, <1>2, AllowedIsAhead DEF Behind
<1>4. PICK last \in DOMAIN events :
        /\ Reports(events[last]) = from
        /\ \A j \in DOMAIN events : j > last => Reports(events[j]) = None
  BY DEF Audited
<1>5. from # None
  BY NoRowAssumption
<1>6. /\ DOMAIN events = 1..Len(events) /\ Len(events) \in Nat
      /\ DOMAIN longer = 1..Len(longer) /\ Len(longer) \in Nat
  OBVIOUS
<1>7. ASSUME NEW i \in DOMAIN longer, NEW j \in DOMAIN longer, i < j,
             Reports(longer[i]) # None, Reports(longer[j]) # None,
             \A k \in DOMAIN longer : i < k /\ k < j => Reports(longer[k]) = None
      PROVE  Allowed(Reports(longer[i]), Reports(longer[j]))
  <2>1. CASE j \in DOMAIN events
    <3>1. i \in DOMAIN events
      BY <1>6, <1>7, <2>1
    <3>2. \A k \in DOMAIN events : i < k /\ k < j => Reports(events[k]) = None
      BY <1>2, <1>7
    <3>3. Allowed(Reports(events[i]), Reports(events[j]))
      BY <1>2, <1>7, <2>1, <3>1, <3>2 DEF Legal
    <3> QED BY <1>2, <2>1, <3>1, <3>3
  <2>2. CASE j \notin DOMAIN events
    <3>1. j = new /\ i \in DOMAIN events
      BY <1>1, <1>7, <2>2
    <3>2. last < j
      BY <1>6, <2>2
    <3>3. ~(last > i)
      BY <1>2, <1>4, <1>5, <1>7, <3>2
    <3>4. ~(i > last)
      BY <1>2, <1>4, <1>7, <3>1
    <3>5. i = last
      BY <1>6, <3>1, <3>3, <3>4
    <3> QED BY <1>1, <1>2, <1>4, <3>1, <3>5
  <2> QED BY <2>1, <2>2
<1> QED BY <1>3, <1>7 DEF Legal

\* Each step of the story keeps all that holds of it.
LEMMA StoryGoesOn ==
  ASSUME TypeOK, TypeOK', AuditMatchesStatus, StoryOK, StoryStep
  PROVE  StoryOK'
<1>1. /\ history \in [Cases -> Seq(CaseEvent)] /\ history' \in [Cases -> Seq(CaseEvent)]
      /\ cases \in [Cases -> CaseRow \cup {None}] /\ cases' \in [Cases -> CaseRow \cup {None}]
  BY DEF TypeOK, StoreTypeOK
<1>2. ASSUME NEW c \in Cases
      PROVE  /\ cases'[c] = None => history'[c] = << >>
             /\ Legal(history'[c])
             /\ cases'[c] # None => Timed(cases'[c]) /\ Behind(history'[c], cases'[c].status)
  <2>1. /\ cases[c] = None => history[c] = << >>
        /\ Legal(history[c])
        /\ cases[c] # None => Timed(cases[c]) /\ Behind(history[c], cases[c].status)
    BY DEF StoryOK, HistoryBegins
  <2>2. history[c] \in Seq(CaseEvent) /\ history'[c] \in Seq(CaseEvent)
    BY <1>1
  <2>3. CASE Stays(c)
    <3>1. Legal(history'[c])
      BY <2>1, <2>2, <2>3, SilenceIsLegal DEF Stays
    <3>2. ASSUME cases[c] # None
          PROVE  Timed(cases'[c]) /\ Behind(history'[c], cases'[c].status)
      <4>1. Behind(history'[c], cases[c].status)
        BY <2>1, <2>2, <2>3, <3>2, SilenceIsLegal DEF Stays
      <4> QED BY <2>1, <2>3, <3>2, <4>1 DEF Stays, Timed
    <3> QED BY <2>1, <2>3, <3>1, <3>2 DEF Stays
  <2>4. CASE Moves(c)
    <3>1. cases[c].status \in CaseStatus /\ cases'[c].status \in CaseStatus
      BY <1>1, <2>4 DEF Moves, CaseRow
    <3>2. Audited(cases[c].status, history[c])
      BY <2>4 DEF Moves, AuditMatchesStatus
    <3> QED BY <2>1, <2>2, <2>4, <3>1, <3>2, NextIsLegal DEF Moves
  <2>5. CASE Appears(c)
    <3>1. DOMAIN history[c] = {}
      BY <2>5 DEF Appears
    <3>2. \A i, j \in DOMAIN history'[c] :
            Reports(history'[c][i]) # None /\ Reports(history'[c][j]) # None => i = j
      BY <2>5, <3>1 DEF Appears, OneReported
    <3>3. Legal(history'[c])
      BY <2>2, <3>2 DEF Legal
    <3>4. Behind(history'[c], "NEW")
      BY <2>5, <3>1 DEF Appears, OneReported, Behind, Earlier
    <3> QED BY <2>5, <3>3, <3>4 DEF Appears
  <2> QED BY <2>3, <2>4, <2>5 DEF StoryStep
<1>3. HistoryBegins'
  BY <1>2 DEF HistoryBegins
<1>4. \A c \in Cases : Legal(history[c])'
  BY <1>2 DEF Legal, Reports
<1>5. \A c \in Cases :
        (cases[c] # None => Timed(cases[c]) /\ Behind(history[c], cases[c].status))'
  BY <1>2 DEF Timed, Behind, Reports
<1> QED BY <1>3, <1>4, <1>5 DEF StoryOK

-----------------------------------------------------------------------------
(* Commands on one case that do not overlap. *)

\* From its first read to its commit or its rollback.
UnderWay(call) == call.phase \in {"loaded", "staged"}

(***************************************************************************)
(* The hypothesis: no two commands are under way on the same case.  Those  *)
(* on different cases overlap as they like.                                *)
(***************************************************************************)
OneCommandPerCase ==
  \A q, r \in Requests :
    (q # r /\ UnderWay(calls[q]) /\ UnderWay(calls[r])) => calls[q].case # calls[r].case

\* A command that is to write has found its transition allowed.
Decided(call) ==
  call.phase = "staged" =>
    /\ call.op \in DOMAIN Target => Allowed(call.loaded.status, Target[call.op])
    /\ call.op = "reply" => Allowed(call.loaded.status, "WAITING_MODERATOR")

\* What a command has loaded is what is stored, and its decision is about that row.
StillStored(call, rows) == UnderWay(call) => call.loaded = rows[call.case]
LoadsFresh == \A r \in Requests : StillStored(calls[r], cases) /\ Decided(calls[r])

\* A step that leaves cases and histories leaves every story.
LEMMA SameStories ==
  ASSUME UNCHANGED <<cases, history>>
  PROVE  StoryStep
  BY DEF StoryStep, Stays, NoneReported, Kept

\* A transaction writes its own case.
LEMMA CommitStory ==
  ASSUME TypeOK, NEW r \in Requests, NEW row, NEW events, calls[r].case \in Cases,
         Commit(r, row, events)
  PROVE  /\ cases'[calls[r].case] = row /\ history'[calls[r].case] = events
         /\ \A d \in Cases \ {calls[r].case} : Stays(d)
  BY DEF TypeOK, StoreTypeOK, Commit, Stays, NoneReported, Kept

\* A row written by a command that had loaded it has the deadlines of its status.
LEMMA WrittenRowsTimed ==
  ASSUME NEW row \in CaseRow, NEW now \in Nat
  PROVE  /\ Timed(SentRow(row, row, now)) /\ Timed(RepliedRow(row, row, now))
         /\ Timed(ClosedRow(row, row)) /\ Timed(CancelledRow(row, row))
<1>1. \A minutes \in Nat : DeadlineAfter(now, minutes) # None
  BY NoneAssumption DEF DeadlineAfter
<1>2. \A deadline : Cleared(deadline, deadline) = None
  BY DEF Cleared
<1>3. Timed(SentRow(row, row, now))
  BY <1>1, <1>2, MinutesAssumption DEF Timed, SentRow, CaseRow
<1>4. Timed(RepliedRow(row, row, now))
  BY <1>1, <1>2, MinutesAssumption DEF Timed, RepliedRow, CaseRow
<1>5. Timed(ClosedRow(row, row)) /\ Timed(CancelledRow(row, row))
  BY <1>2 DEF Timed, ClosedRow, CancelledRow, CaseRow
<1> QED BY <1>3, <1>4, <1>5

\* A commit of a fresh command is a step of the story.
LEMMA CommitCommandStory ==
  ASSUME TypeOK, LoadsFresh, NEW r \in Requests, CommitCommand(r)
  PROVE  StoryStep
<1> DEFINE c == calls[r].case
           row == cases[c]
           now == calls[r].now
<1>1. /\ c \in Cases /\ row \in CaseRow /\ row # None /\ now \in Nat
      /\ history[c] \in Seq(CaseEvent)
      /\ calls[r].loaded = row
      /\ Decided(calls[r]) /\ calls[r].phase = "staged"
      /\ calls[r].op = "reassign" => calls[r].arg \in Assignees
  BY DEF TypeOK, StoreTypeOK, CallOK, Call, LoadsFresh, StillStored, UnderWay, CommitCommand,
         CommitMark, CommitReply, CommitConfirm, CommitCancel, CommitReassign, Staged
<1>2. \A event : OneReported(history[c], Append(history[c], event), Reports(event))
  BY <1>1, AppendReports
<1>3. ASSUME NEW written, NEW events, Commit(r, written, events),
             written # None, Allowed(row.status, written.status), Timed(written),
             OneReported(history[c], events, written.status)
      PROVE  StoryStep
  <2>1. Moves(c) /\ \A d \in Cases \ {c} : Stays(d)
    BY <1>1, <1>3, CommitStory DEF Moves
  <2> QED BY <1>1, <2>1 DEF StoryStep
<1>4. None \in Assignees
  BY DEF Assignees
<1>5. CASE CommitMark(r)
  <2> DEFINE written == SentRow(row, row, now)
             events == Append(history[c], Event("CLIENT_REQUEST_SENT", None))
  <2>1. Allowed(row.status, "WAITING_CLIENT")
    BY <1>1, <1>5 DEF CommitMark, Staged, Decided, Target
  <2>2. written.status = "WAITING_CLIENT"
    BY <1>1 DEF SentRow, CaseRow
  <2>3. Reports(Event("CLIENT_REQUEST_SENT", None)) = "WAITING_CLIENT"
    BY DEF Reports, Event
  <2>4. Timed(written) /\ written # None
    BY <1>1, <1>4, WrittenRowsTimed, WrittenRows, NoRowAssumption
  <2>5. OneReported(history[c], events, "WAITING_CLIENT")
    BY <1>2, <2>3
  <2>6. Commit(r, written, events)
    BY <1>1, <1>5 DEF CommitMark
  <2> HIDE DEF written, events
  <2> QED BY <1>3, <2>1, <2>2, <2>4, <2>5, <2>6
<1>6. CASE CommitReply(r)
  <2>1. CASE UNCHANGED storeVars
    BY <2>1, SameStories DEF storeVars
  <2>2. CASE ~UNCHANGED storeVars
    <3> DEFINE written == RepliedRow(row, row, now)
               event == Event("CLIENT_REPLY_RECEIVED", calls[r].arg)
    <3>1. Allowed(row.status, "WAITING_MODERATOR")
      BY <1>1, <1>6 DEF CommitReply, Staged, Decided
    <3>2. written.status = "WAITING_MODERATOR"
      BY <1>1 DEF RepliedRow, CaseRow
    <3>3. Reports(event) = "WAITING_MODERATOR"
      BY DEF Reports, Event
    <3>4. Timed(written) /\ written # None
      BY <1>1, <1>4, WrittenRowsTimed, WrittenRows, NoRowAssumption
    <3>5. OneReported(history[c], Append(history[c], event), "WAITING_MODERATOR")
      BY <1>2, <3>3
    <3>6. Commit(r, written, Append(history[c], event))
      BY <1>1, <1>6, <2>2 DEF CommitReply
    <3> HIDE DEF written, event
    <3> QED BY <1>3, <3>1, <3>2, <3>4, <3>5, <3>6
  <2> QED BY <2>1, <2>2
<1>7. CASE CommitConfirm(r)
  <2> DEFINE written == ClosedRow(row, row)
  <2>1. Allowed(row.status, "CLOSED")
    BY <1>1, <1>7 DEF CommitConfirm, Staged, Decided, Target
  <2>2. written.status = "CLOSED"
    BY <1>1 DEF ClosedRow, CaseRow
  <2>3. Timed(written) /\ written # None
    BY <1>1, <1>4, WrittenRowsTimed, WrittenRows, NoRowAssumption
  <2>4. OneReported(history[c], Confirmed(history[c]), "CLOSED")
    BY <1>1, ConfirmedReports
  <2>5. Commit(r, written, Confirmed(history[c]))
    BY <1>1, <1>7 DEF CommitConfirm, Confirmed
  <2> HIDE DEF written
  <2> QED BY <1>3, <2>1, <2>2, <2>3, <2>4, <2>5
<1>8. CASE CommitCancel(r)
  <2> DEFINE written == CancelledRow(row, row)
             events == Append(history[c], Event("CASE_CANCELLED", None))
  <2>1. Allowed(row.status, "CANCELLED")
    BY <1>1, <1>8 DEF CommitCancel, Staged, Decided, Target
  <2>2. written.status = "CANCELLED"
    BY <1>1 DEF CancelledRow, CaseRow
  <2>3. Reports(Event("CASE_CANCELLED", None)) = "CANCELLED"
    BY DEF Reports, Event
  <2>4. Timed(written) /\ written # None
    BY <1>1, <1>4, WrittenRowsTimed, WrittenRows, NoRowAssumption
  <2>5. OneReported(history[c], events, "CANCELLED")
    BY <1>2, <2>3
  <2>6. Commit(r, written, events)
    BY <1>1, <1>8 DEF CommitCancel
  <2> HIDE DEF written, events
  <2> QED BY <1>3, <2>1, <2>2, <2>4, <2>5, <2>6
<1>9. CASE CommitReassign(r)
  <2> DEFINE moderator == calls[r].arg
             written == ReassignedRow(row, row, moderator)
             event == Event("MODERATOR_CHANGED", <<row.moderator, moderator>>)
  <2>1. Reports(event) = None
    BY DEF Reports, Event
  <2>2. /\ written # None /\ written.status = row.status
        /\ written.clientDeadline = row.clientDeadline
        /\ written.moderatorDeadline = row.moderatorDeadline
    BY <1>1, <1>9, WrittenRows, NoRowAssumption DEF CommitReassign, Staged, ReassignedRow, CaseRow
  <2>3. NoneReported(history[c], Append(history[c], event))
    BY <1>1, <2>1, AppendReports
  <2>4. Commit(r, written, Append(history[c], event))
    BY <1>1, <1>9 DEF CommitReassign
  <2> HIDE DEF written, event
  <2>5. /\ cases'[c] = written /\ history'[c] = Append(history[c], event)
        /\ \A d \in Cases \ {c} : Stays(d)
    BY <1>1, <2>4, CommitStory
  <2>6. Stays(c)
    BY <1>1, <2>2, <2>3, <2>5 DEF Stays
  <2> QED BY <1>1, <2>5, <2>6 DEF StoryStep
<1> QED BY <1>5, <1>6, <1>7, <1>8, <1>9 DEF CommitCommand

\* Every step of the commands is one, if what they decide on is fresh.
LEMMA CaseNextStory ==
  ASSUME TypeOK, LoadsFresh, HistoryBegins, [CaseNext]_caseVars
  PROVE  StoryStep
<1>1. ASSUME NEW c \in Cases, NEW m \in Assignees, CreateCase(c, m)
      PROVE  StoryStep
  <2> DEFINE event == Event("CASE_CREATED", None)
  <2>1. history[c] = << >> /\ history[c] \in Seq(CaseEvent)
    BY <1>1 DEF CreateCase, HistoryBegins, TypeOK, StoreTypeOK
  <2>2. Reports(event) = "NEW"
    BY DEF Reports, Event
  <2>3. /\ cases'[c].status = "NEW" /\ Timed(cases'[c])
        /\ cases'[c] \in CaseRow
    BY <1>1 DEF CreateCase, TypeOK, StoreTypeOK, Timed, CaseRow, CaseStatus, Deadline
  <2>4. history'[c] = Append(history[c], event)
    BY <1>1 DEF CreateCase, TypeOK, StoreTypeOK
  <2>5. \A d \in Cases \ {c} : Stays(d)
    BY <1>1 DEF CreateCase, TypeOK, StoreTypeOK, Stays, NoneReported, Kept
  <2>6. OneReported(history[c], Append(history[c], event), "NEW")
    BY <2>1, <2>2, AppendReports
  <2> HIDE DEF event
  <2>7. Appears(c)
    BY <1>1, <2>1, <2>3, <2>4, <2>6, NoRowAssumption DEF Appears, CreateCase
  <2> QED BY <2>5, <2>7 DEF StoryStep
<1>2. CASE UNCHANGED <<cases, history>>
  BY <1>2, SameStories
<1> QED
  BY <1>1, <1>2, CommitCommandStory, ReadingSteps DEF CaseNext, Tick, storeVars, caseVars

\* A step of one command leaves the others and their loads.
LEMMA OthersStayFresh ==
  ASSUME TypeOK, LoadsFresh, NEW r \in Requests, NEW call,
         calls' = [calls EXCEPT ![r] = call], UNCHANGED cases,
         StillStored(call, cases), Decided(call)
  PROVE  LoadsFresh'
<1>1. \A q \in Requests : calls'[q] = IF q = r THEN call ELSE calls[q]
  BY DEF TypeOK
<1>2. \A q \in Requests : StillStored(calls'[q], cases') /\ Decided(calls'[q])
  BY <1>1 DEF LoadsFresh
<1> QED BY <1>2 DEF LoadsFresh, StillStored, Decided

\* A call that is over has loaded nothing and decides nothing.
LEMMA NotUnderWay ==
  ASSUME NEW call, ~UnderWay(call), NEW rows
  PROVE  StillStored(call, rows) /\ Decided(call)
  BY DEF StillStored, Decided, UnderWay

\* An answer ends the call.
LEMMA FinishedFresh ==
  ASSUME TypeOK, LoadsFresh, NEW r \in Requests, NEW op, NEW c, NEW arg, NEW answer,
         Respond(r, op, c, arg, answer), UNCHANGED cases
  PROVE  LoadsFresh'
<1> DEFINE call == [Idle EXCEPT !.phase = "answered", !.op = op, !.case = c,
                                !.arg = arg, !.answer = answer]
<1>1. calls' = [calls EXCEPT ![r] = call]
  BY DEF Respond
<1>2. ~UnderWay(call)
  BY DEF UnderWay, Idle
<1> HIDE DEF call
<1> QED BY <1>1, <1>2, NotUnderWay, OthersStayFresh

\* A command reads what is stored and decides on that.
LEMMA ReceiveFresh ==
  ASSUME TypeOK, LoadsFresh, NEW r \in Requests, NEW c \in Cases, Receive(r, c)
  PROVE  LoadsFresh'
<1>1. UNCHANGED cases
  BY ReadingSteps DEF storeVars
<1>2. ASSUME NEW phase, NEW op, NEW arg, Hold(r, phase, op, c, arg),
             phase = "staged" =>
               /\ op \in DOMAIN Target => Allowed(cases[c].status, Target[op])
               /\ op = "reply" => Allowed(cases[c].status, "WAITING_MODERATOR")
      PROVE  LoadsFresh'
  <2> DEFINE call == [phase |-> phase, op |-> op, case |-> c, arg |-> arg,
                      loaded |-> cases[c], now |-> clock, answer |-> None]
  <2>1. StillStored(call, cases) /\ Decided(call)
    BY <1>2 DEF StillStored, Decided
  <2>2. calls' = [calls EXCEPT ![r] = call]
    BY <1>2 DEF Hold
  <2> HIDE DEF call
  <2> QED BY <1>1, <2>1, <2>2, OthersStayFresh
<1>3. ASSUME NEW op, NEW arg, NEW answer, Respond(r, op, c, arg, answer)
      PROVE  LoadsFresh'
  BY <1>1, <1>3, FinishedFresh
<1>4. ASSUME NEW op \in {"mark", "confirm", "cancel"}, ReceiveTransition(r, op, c)
      PROVE  LoadsFresh'
  <2>1. op # "reply"
    OBVIOUS
  <2> QED BY <1>2, <1>3, <1>4, <2>1 DEF ReceiveTransition
<1>5. ASSUME NEW m \in Messages, ReceiveReply(r, c, m) PROVE LoadsFresh'
  BY <1>2, <1>5 DEF ReceiveReply
<1>6. ASSUME NEW m \in Assignees, ReceiveReassign(r, c, m) PROVE LoadsFresh'
  <2>1. "reassign" \notin DOMAIN Target
    BY DEF Target
  <2> QED BY <1>2, <1>3, <1>6, <2>1 DEF ReceiveReassign
<1> QED BY <1>3, <1>4, <1>5, <1>6 DEF Receive, RejectUnknownCase

\* A commit leaves every command on another case its load.
LEMMA CommitFresh ==
  ASSUME TypeOK, LoadsFresh, OneCommandPerCase, NEW r \in Requests, NEW row, NEW events,
         calls[r].phase = "staged", Commit(r, row, events)
  PROVE  LoadsFresh'
<1> DEFINE c == calls[r].case
           call == [Idle EXCEPT !.phase = "answered", !.op = calls[r].op, !.case = c,
                                !.arg = calls[r].arg, !.answer = "applied"]
<1>1. calls' = [calls EXCEPT ![r] = call] /\ cases' = [cases EXCEPT ![c] = row]
  BY DEF Commit, Finish, Respond
<1>2. ~UnderWay(call)
  BY DEF UnderWay, Idle
<1> HIDE DEF call
<1>3. ASSUME NEW q \in Requests
      PROVE  StillStored(calls'[q], cases') /\ Decided(calls'[q])
  <2>1. CASE q = r
    BY <1>1, <1>2, <2>1, NotUnderWay DEF TypeOK
  <2>2. CASE q # r
    <3>1. calls'[q] = calls[q]
      BY <1>1, <2>2 DEF TypeOK
    <3>2. UnderWay(calls[q]) => calls[q].case \in Cases /\ calls[q].case # c
      BY <2>2 DEF OneCommandPerCase, UnderWay, TypeOK, CallOK
    <3>3. UnderWay(calls[q]) => cases'[calls[q].case] = cases[calls[q].case]
      BY <1>1, <3>2 DEF TypeOK, StoreTypeOK
    <3> QED BY <3>1, <3>3 DEF LoadsFresh, StillStored
  <2> QED BY <2>1, <2>2
<1> QED BY <1>3 DEF LoadsFresh, StillStored, Decided

\* Commands that do not overlap on a case decide on what is stored.
LEMMA CaseNextFresh ==
  ASSUME TypeOK, LoadsFresh, OneCommandPerCase, [CaseNext]_caseVars
  PROVE  LoadsFresh'
<1>1. CASE UNCHANGED <<cases, calls>>
  BY <1>1 DEF LoadsFresh, StillStored, Decided, UnderWay
<1>2. ASSUME NEW c \in Cases, NEW m \in Assignees, CreateCase(c, m)
      PROVE  LoadsFresh'
  <2>1. ASSUME NEW q \in Requests, UnderWay(calls[q])
        PROVE  cases'[calls[q].case] = cases[calls[q].case]
    BY <1>2, <2>1 DEF CreateCase, UnderWay, TypeOK, StoreTypeOK, CallOK
  <2>2. UNCHANGED calls
    BY <1>2 DEF CreateCase
  <2> QED BY <2>1, <2>2 DEF LoadsFresh, StillStored, Decided, UnderWay
<1>3. ASSUME NEW r \in Requests, LookUpReply(r) PROVE LoadsFresh'
  <2>1. UNCHANGED cases
    BY <1>3 DEF LookUpReply, storeVars
  <2>2. CASE \E answer : Finish(r, answer)
    BY <2>1, <2>2, FinishedFresh DEF Finish
  <2>3. CASE calls' = [calls EXCEPT ![r].phase = "staged", ![r].now = clock]
             /\ Allowed(calls[r].loaded.status, "WAITING_MODERATOR")
    <3> DEFINE call == [calls[r] EXCEPT !.phase = "staged", !.now = clock]
    <3>1. calls[r] \in Call /\ calls[r].phase = "loaded" /\ calls[r].op = "reply"
      BY <1>3 DEF LookUpReply, TypeOK, CallOK
    <3>2. calls' = [calls EXCEPT ![r] = call]
      BY <2>3, <3>1 DEF TypeOK, Call
    <3>3. /\ call.op = "reply" /\ call.loaded = calls[r].loaded /\ call.case = calls[r].case
      BY <3>1 DEF Call
    <3> HIDE DEF call
    <3>4. StillStored(call, cases)
      BY <3>1, <3>3 DEF StillStored, LoadsFresh, UnderWay
    <3>5. Decided(call)
      BY <2>3, <3>3 DEF Decided, Target
    <3> QED BY <2>1, <3>2, <3>4, <3>5, OthersStayFresh
  <2> QED BY <1>3, <2>2, <2>3 DEF LookUpReply
<1>4. ASSUME NEW r \in Requests, CommitCommand(r) PROVE LoadsFresh'
  <2>1. calls[r].phase = "staged"
    BY <1>4 DEF CommitCommand, CommitMark, CommitReply, CommitConfirm, CommitCancel,
                CommitReassign, Staged
  <2>2. CASE \E row, events : Commit(r, row, events)
    BY <2>1, <2>2, CommitFresh
  <2>3. CASE UNCHANGED storeVars /\ \E answer : Finish(r, answer)
    BY <2>3, FinishedFresh DEF Finish, storeVars
  <2> QED BY <1>4, <2>2, <2>3
      DEF CommitCommand, CommitMark, CommitReply, CommitConfirm, CommitCancel, CommitReassign
<1>5. ASSUME NEW r \in Requests, RollBack(r) PROVE LoadsFresh'
  BY <1>5, FinishedFresh DEF RollBack, Finish, storeVars
<1>6. ASSUME NEW r \in Requests, Return(r) PROVE LoadsFresh'
  <2>1. ~UnderWay(Idle)
    BY DEF UnderWay, Idle
  <2> QED BY <1>6, <2>1, NotUnderWay, OthersStayFresh DEF Return, storeVars
<1> QED
  BY <1>1, <1>2, <1>3, <1>4, <1>5, <1>6, ReceiveFresh DEF CaseNext, Tick, caseVars

-----------------------------------------------------------------------------
(* One command at a time: what the documentation says holds. *)

\* The inductive invariant of commands that do not overlap on a case.
SerialInv == TypeOK /\ AuditMatchesStatus /\ StoryOK /\ LoadsFresh

\* No case has a story yet.
LEMMA SerialInit == CaseInit => SerialInv
<1> SUFFICES ASSUME CaseInit PROVE SerialInv
  OBVIOUS
<1>1. TypeOK
  BY CaseInitTypeOK
<1>2. AuditMatchesStatus /\ StoryOK
  BY DEF CaseInit, StoreInit, AuditMatchesStatus, StoryOK, HistoryBegins, Legal
<1>3. LoadsFresh
  BY DEF CaseInit, Idle, LoadsFresh, StillStored, Decided, UnderWay
<1> QED BY <1>1, <1>2, <1>3 DEF SerialInv

\* Every step keeps it.
LEMMA SerialNext ==
  ASSUME SerialInv, OneCommandPerCase, [CaseNext]_caseVars
  PROVE  SerialInv' /\ StoryStep
<1>1. TypeOK'
  BY CaseNextTypeOK DEF SerialInv
<1>2. AuditMatchesStatus'
  BY CaseNextAudited DEF SerialInv
<1>3. StoryStep
  BY CaseNextStory DEF SerialInv, StoryOK
<1>4. StoryOK'
  BY <1>1, <1>3, StoryGoesOn DEF SerialInv
<1>5. LoadsFresh'
  BY CaseNextFresh DEF SerialInv
<1> QED BY <1>1, <1>2, <1>3, <1>4, <1>5 DEF SerialInv

\* What it says of the history and of the deadlines.
LEMMA StoryIsLegal ==
  ASSUME TypeOK, StoryOK
  PROVE  TransitionsAllowed /\ FinishedHasNoDeadline
<1>1. TransitionsAllowed
  BY DEF StoryOK, Legal, TransitionsAllowed
<1>2. FinishedHasNoDeadline
  BY DEF StoryOK, Timed, FinishedHasNoDeadline
<1> QED BY <1>1, <1>2

(***************************************************************************)
(* Commands that do not overlap on a case take it through the transitions  *)
(* of the state machine only: the histories that break the documentation   *)
(* need two overlapping commands.                                          *)
(***************************************************************************)
THEOREM SerialTransitionsAllowed ==
  CaseSpec /\ []OneCommandPerCase => []TransitionsAllowed
<1>1. CaseInit => SerialInv
  BY SerialInit
<1>2. SerialInv /\ OneCommandPerCase /\ [CaseNext]_caseVars => SerialInv'
  BY SerialNext
<1>3. SerialInv => TransitionsAllowed
  BY StoryIsLegal DEF SerialInv
<1> QED BY <1>1, <1>2, <1>3, PTL DEF CaseSpec

(***************************************************************************)
(* Nor does such a case keep a deadline when it is closed or cancelled.    *)
(***************************************************************************)
THEOREM SerialFinishedHasNoDeadline ==
  CaseSpec /\ []OneCommandPerCase => []FinishedHasNoDeadline
<1>1. CaseInit => SerialInv
  BY SerialInit
<1>2. SerialInv /\ OneCommandPerCase /\ [CaseNext]_caseVars => SerialInv'
  BY SerialNext
<1>3. SerialInv => FinishedHasNoDeadline
  BY StoryIsLegal DEF SerialInv
<1> QED BY <1>1, <1>2, <1>3, PTL DEF CaseSpec

-----------------------------------------------------------------------------
(* The lifecycle. *)

ReportPlaces(status, events) == {i \in DOMAIN events : Reports(events[i]) = status}

\* What reports no status leaves the places of every status.
LEMMA SilencePlaces ==
  ASSUME NEW events, NEW longer, NEW status \in CaseStatus, NoneReported(events, longer)
  PROVE  ReportPlaces(status, longer) = ReportPlaces(status, events)
<1>1. status # None
  BY NoRowAssumption
<1> QED BY <1>1 DEF NoneReported, Kept, ReportPlaces

\* A status that was not reported and is now has one place; the others keep theirs.
LEMMA ReportedPlaces ==
  ASSUME NEW events, NEW longer, NEW status \in CaseStatus,
         OneReported(events, longer, status),
         \A i \in DOMAIN events : Reports(events[i]) # status
  PROVE  /\ Cardinality(ReportPlaces(status, events)) = 0
         /\ Cardinality(ReportPlaces(status, longer)) = 1
         /\ \A other \in CaseStatus \ {status} :
              ReportPlaces(other, longer) = ReportPlaces(other, events)
<1>1. PICK new \in DOMAIN longer :
        /\ new \notin DOMAIN events /\ Reports(longer[new]) = status
        /\ \A j \in DOMAIN longer : j \notin DOMAIN events /\ j # new => Reports(longer[j]) = None
  BY DEF OneReported
<1>2. \A k \in DOMAIN events : k \in DOMAIN longer /\ longer[k] = events[k]
  BY DEF OneReported, Kept
<1>3. None \notin CaseStatus
  BY NoRowAssumption
<1>4. ReportPlaces(status, events) = {}
  BY DEF ReportPlaces
<1>5. ReportPlaces(status, longer) = {new}
  BY <1>1, <1>2, <1>3 DEF ReportPlaces
<1>6. \A other \in CaseStatus \ {status} :
        ReportPlaces(other, longer) = ReportPlaces(other, events)
  BY <1>1, <1>2, <1>3 DEF ReportPlaces
<1> QED BY <1>4, <1>5, <1>6, FS_EmptySet, FS_Singleton

\* A case that stays shows the same.
LEMMA StaysIsStutter ==
  ASSUME TypeOK, NEW c \in Cases, Stays(c)
  PROVE  /\ StageOf(c)' = StageOf(c) /\ Entries(c)' = Entries(c)
         /\ RunningDeadlines(c)' = RunningDeadlines(c)
<1>1. \A status \in CaseStatus :
        ReportPlaces(status, history'[c]) = ReportPlaces(status, history[c])
  BY SilencePlaces DEF Stays
<1>2. Entries(c)' = Entries(c)
  BY <1>1 DEF Entries, ReportPlaces, Reports
<1>3. StageOf(c)' = StageOf(c) /\ RunningDeadlines(c)' = RunningDeadlines(c)
  BY DEF Stays, StageOf, RunningDeadlines
<1> QED BY <1>2, <1>3

\* A case that goes on enters the status it gets, for the first time.
LEMMA StoryEnters ==
  ASSUME TypeOK, TypeOK', StoryOK, NEW c \in Cases, Moves(c) \/ Appears(c),
         \A d \in Cases \ {c} : Stays(d)
  PROVE  Lifecycle!Enter(c, cases'[c].status)
<1> DEFINE status == cases'[c].status
<1>1. cases'[c] # None /\ cases'[c] \in CaseRow /\ status \in CaseStatus
  BY DEF TypeOK, StoreTypeOK, Moves, Appears, CaseRow
<1>2. /\ OneReported(history[c], history'[c], status)
      /\ \A i \in DOMAIN history[c] : Reports(history[c][i]) # status
  <2>1. CASE Appears(c)
    BY <2>1 DEF Appears
  <2>2. CASE Moves(c)
    <3>1. cases[c].status \in CaseStatus /\ Behind(history[c], cases[c].status)
      BY <2>2 DEF Moves, TypeOK, StoreTypeOK, CaseRow, StoryOK
    <3>2. status \notin {None} \cup Earlier[cases[c].status]
      BY <1>1, <2>2, <3>1, AllowedIsAhead, NoRowAssumption DEF Moves
    <3> QED BY <2>2, <3>1, <3>2 DEF Moves, Behind
  <2> QED BY <2>1, <2>2
<1>3. /\ Cardinality(ReportPlaces(status, history[c])) = 0
      /\ Cardinality(ReportPlaces(status, history'[c])) = 1
      /\ \A other \in CaseStatus \ {status} :
           ReportPlaces(other, history'[c]) = ReportPlaces(other, history[c])
  BY <1>1, <1>2, ReportedPlaces
<1>4. /\ Entries(c)[status] = 0
      /\ Entries(c)' = [Entries(c) EXCEPT ![status] = 1]
  BY <1>1, <1>3 DEF Entries, ReportPlaces, Reports
<1>5. StageOf(c)' = status
  BY <1>1 DEF StageOf
<1>6. RunningDeadlines(c)' = Lifecycle!Timers(status)
  BY <1>1 DEF RunningDeadlines, Lifecycle!Timers, Timed, Moves, Appears
<1>7. \A d \in Cases \ {c} :
        /\ StageOf(d)' = StageOf(d) /\ Entries(d)' = Entries(d)
        /\ RunningDeadlines(d)' = RunningDeadlines(d)
  BY StaysIsStutter
<1> HIDE DEF status
<1>8. [d \in Cases |-> StageOf(d)]' = [[d \in Cases |-> StageOf(d)] EXCEPT ![c] = status]
  BY <1>5, <1>7
<1>9. [d \in Cases |-> Entries(d)]'
        = [[d \in Cases |-> Entries(d)] EXCEPT ![c][status] = 1]
  BY <1>4, <1>7
<1>10. [d \in Cases |-> RunningDeadlines(d)]'
         = [[d \in Cases |-> RunningDeadlines(d)] EXCEPT ![c] = Lifecycle!Timers(status)]
  BY <1>6, <1>7
<1> QED BY <1>4, <1>8, <1>9, <1>10 DEF Lifecycle!Enter, status

\* The transitions of the state machine, as the lifecycle sees them.
LEMMA AllowedIsPath ==
  ASSUME NEW from, NEW to, Allowed(from, to)
  PROVE  \/ \E i \in 1..4 : from = Lifecycle!Path[i] /\ to = Lifecycle!Path[i + 1]
         \/ from \in {"NEW", "WAITING_CLIENT", "WAITING_MODERATOR"} /\ to = "CANCELLED"
<1>1. /\ Lifecycle!Path[2] = "NEW" /\ Lifecycle!Path[3] = "WAITING_CLIENT"
      /\ Lifecycle!Path[4] = "WAITING_MODERATOR" /\ Lifecycle!Path[5] = "CLOSED"
  BY DEF Lifecycle!Path
<1>2. 2 \in 1..4 /\ 3 \in 1..4 /\ 4 \in 1..4 /\ 2 + 1 = 3 /\ 3 + 1 = 4 /\ 4 + 1 = 5
  OBVIOUS
<1> QED BY <1>1, <1>2 DEF Allowed

\* A step of the story is a step of the lifecycle, or none.
LEMMA StoryIsLifecycle ==
  ASSUME TypeOK, TypeOK', StoryOK, StoryStep
  PROVE  [Lifecycle!LifecycleNext]_(Lifecycle!lifecycleVars)
<1>1. CASE \A c \in Cases : Stays(c)
  <2>1. \A c \in Cases : /\ StageOf(c)' = StageOf(c) /\ Entries(c)' = Entries(c)
                         /\ RunningDeadlines(c)' = RunningDeadlines(c)
    BY <1>1, StaysIsStutter
  <2>2. /\ [c \in Cases |-> StageOf(c)]' = [c \in Cases |-> StageOf(c)]
        /\ [c \in Cases |-> Entries(c)]' = [c \in Cases |-> Entries(c)]
        /\ [c \in Cases |-> RunningDeadlines(c)]' = [c \in Cases |-> RunningDeadlines(c)]
    BY <2>1
  <2> QED BY <2>2 DEF Lifecycle!lifecycleVars
<1>2. ASSUME NEW c \in Cases, Moves(c) \/ Appears(c), \A d \in Cases \ {c} : Stays(d)
      PROVE  Lifecycle!LifecycleNext
  <2>1. Lifecycle!Enter(c, cases'[c].status)
    BY <1>2, StoryEnters
  <2>2. CASE Appears(c)
    <3>1. StageOf(c) = Lifecycle!Path[1] /\ cases'[c].status = Lifecycle!Path[1 + 1]
      BY <2>2 DEF Appears, StageOf, Lifecycle!Path
    <3>2. Lifecycle!Advance(c)
      BY <2>1, <3>1 DEF Lifecycle!Advance
    <3> QED BY <3>2 DEF Lifecycle!LifecycleNext
  <2>3. CASE Moves(c)
    <3>1. StageOf(c) = cases[c].status /\ Allowed(StageOf(c), cases'[c].status)
      BY <2>3 DEF Moves, StageOf
    <3>2. Lifecycle!Advance(c) \/ Lifecycle!Cancel(c)
      BY <2>1, <3>1, AllowedIsPath DEF Lifecycle!Advance, Lifecycle!Cancel
    <3> QED BY <3>2 DEF Lifecycle!LifecycleNext
  <2> QED BY <1>2, <2>2, <2>3
<1> QED BY <1>1, <1>2 DEF StoryStep

\* No case is there yet: nothing has been entered and nothing runs.
LEMMA CaseInitIsLifecycle == CaseInit => Lifecycle!LifecycleInit
<1> SUFFICES ASSUME CaseInit PROVE Lifecycle!LifecycleInit
  OBVIOUS
<1>1. \A c \in Cases : cases[c] = None /\ history[c] = << >>
  BY DEF CaseInit, StoreInit
<1>2. \A c \in Cases : \A status \in CaseStatus :
        {i \in DOMAIN history[c] : Reports(history[c][i]) = status} = {}
  BY <1>1
<1>3. \A c \in Cases : Entries(c) = [status \in CaseStatus |-> 0]
  BY <1>2, FS_EmptySet DEF Entries
<1>4. \A c \in Cases : StageOf(c) = None /\ RunningDeadlines(c) = Lifecycle!Timers(None)
  BY <1>1, NoRowAssumption DEF StageOf, RunningDeadlines, Lifecycle!Timers, CaseStatus
<1> QED BY <1>3, <1>4 DEF Lifecycle!LifecycleInit, Lifecycle!Statuses, CaseStatus

(***************************************************************************)
(* Commands that do not overlap on a case implement the lifecycle: each    *)
(* stage entered once, in order, with its own deadline and no other.       *)
(***************************************************************************)
THEOREM SerialImplementsLifecycle ==
  CaseSpec /\ []OneCommandPerCase => ImplementsLifecycle
<1>1. CaseInit => SerialInv
  BY SerialInit
<1>2. SerialInv /\ OneCommandPerCase /\ [CaseNext]_caseVars => SerialInv' /\ StoryStep
  BY SerialNext
<1>3. SerialInv /\ SerialInv' /\ StoryStep
        => [Lifecycle!LifecycleNext]_(Lifecycle!lifecycleVars)
  BY StoryIsLifecycle DEF SerialInv
<1> QED BY <1>1, <1>2, <1>3, CaseInitIsLifecycle, PTL
        DEF CaseSpec, ImplementsLifecycle, Lifecycle!LifecycleSpec
=============================================================================
