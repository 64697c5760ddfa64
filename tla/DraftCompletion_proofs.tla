----------------------- MODULE DraftCompletion_proofs -----------------------
(***************************************************************************)
(* Theorems about drafts and the calls that complete them, for all texts,  *)
(* items, chats and forms.  The first part is about the operators: the     *)
(* protobuf messages carry a draft unchanged, and a draft that misses      *)
(* nothing is accepted as an invoice.  The second part is the invariant:   *)
(* while a call runs its draft is the session's, merged with the message   *)
(* at hand, and a session agrees with what its chat was told.              *)
(***************************************************************************)
EXTENDS DraftCompletion, TLAPS

LEMMA EmptyDraftType == EmptyDraft \in Fields /\ Valid(EmptyDraft)
BY MaxItemsAssumption DEF EmptyDraft, Fields, Valid, DatesInOrder, Maybe

LEMMA NoCallType == NoCall \in Call
BY EmptyDraftType DEF NoCall, Call, Phases, Statuses

LEMMA MergeType ==
    ASSUME NEW old \in Fields, NEW new \in Fields
    PROVE  DeepMerge(old, new) \in Fields
BY DEF DeepMerge, Newer, Fields

LEMMA RememberType ==
    ASSUME NEW known \in Fields, NEW new \in Fields
    PROVE  Remember(known, new) \in Fields
BY DEF Remember, Fields, Maybe

LEMMA ExtractableType ==
    ASSUME NEW d \in Extractable
    PROVE  d \in Fields /\ Valid(d)
<1>0. <<>> \in Seq(Item)
  OBVIOUS
<1>1. Offers \cup {<<>>} \subseteq Seq(Item)
  BY <1>0, OffersAssumption
<1>2. /\ d \in [texts : [TextFields -> Maybe(Values)], issue_date : Maybe(Dates),
                due_date : Maybe(Dates), items : Offers \cup {<<>>}, raw_items : {None}]
      /\ Valid(d)
  BY DEF Extractable
<1> QED BY <1>1, <1>2 DEF Fields, Maybe

LEMMA MissingType ==
    ASSUME NEW d \in Fields
    PROVE  Missing(d) \subseteq Needed
<1>1. MissingTexts(d) \subseteq Needed
  BY DEF MissingTexts, Field, Needed, FieldDefinitions
<1>2. Field("issue_date") \in Needed /\ Field("items") \in Needed
  BY DEF Field, Needed, FieldDefinitions
<1>3. ASSUME NEW i \in DOMAIN d.items
      PROVE  MissingOfItem(i, d.items[i]) \subseteq Needed
  BY <1>3 DEF MissingOfItem, PartOf, Needed, FieldDefinitions, Fields
<1> QED BY <1>1, <1>2, <1>3 DEF Missing

\* draft_from_proto undoes draft_to_proto: no empty string is taken for a
\* value, no zero for an absent one.
THEOREM DraftsTravelUnchanged ==
    ASSUME NEW d \in Fields
    PROVE  FromProto(ToProto(d)) = d
<1>1. ASSUME NEW S, NEW v \in Maybe(S), Blank \notin S
      PROVE  Optional(Text(v)) = v
  BY <1>1, NoneAssumption DEF Optional, Text, Maybe
<1>2. /\ Blank \notin Values /\ Blank \notin Dates /\ Blank \notin Quantities
      /\ Blank \notin Prices /\ Blank \notin Descriptions
  BY NoneAssumption
<1> DEFINE p == ToProto(d)
           q == FromProto(p)
<1>3. /\ q.texts = [f \in TextFields |-> Optional(p.texts[f])]
      /\ q.issue_date = Optional(p.issue_date) /\ q.due_date = Optional(p.due_date)
      /\ q.raw_items = Optional(p.raw_items)
      /\ q.items = [i \in DOMAIN p.items |->
           [description |-> Optional(p.items[i].description),
            quantity |-> Optional(p.items[i].quantity),
            unit_price |-> Optional(p.items[i].unit_price)]]
      /\ q = [texts |-> q.texts, issue_date |-> q.issue_date, due_date |-> q.due_date,
              items |-> q.items, raw_items |-> q.raw_items]
  BY DEF FromProto, Carried
<1>4. /\ p.texts = [f \in TextFields |-> Text(d.texts[f])]
      /\ p.issue_date = Text(d.issue_date) /\ p.due_date = Text(d.due_date)
      /\ p.raw_items = Text(d.raw_items)
      /\ p.items = [i \in DOMAIN d.items |->
           [description |-> Text(d.items[i].description),
            quantity |-> Text(d.items[i].quantity),
            unit_price |-> Text(d.items[i].unit_price)]]
  BY DEF ToProto, Carried
<1> HIDE DEF p, q
<1>5. q.texts = d.texts
  <2>1. d.texts \in [TextFields -> Maybe(Values)]
    BY DEF Fields
  <2>2. \A f \in TextFields : Optional(Text(d.texts[f])) = d.texts[f]
    BY <1>1, <1>2, <2>1
  <2> QED BY <1>3, <1>4, <2>1, <2>2
<1>6. q.issue_date = d.issue_date /\ q.due_date = d.due_date
  BY <1>1, <1>2, <1>3, <1>4 DEF Fields
<1>7. q.raw_items = d.raw_items
  BY <1>1, <1>2, <1>3, <1>4 DEF Fields
<1>8. q.items = d.items
  <2>1. d.items \in Seq(Item)
    BY DEF Fields
  <2>2. ASSUME NEW i \in DOMAIN d.items
        PROVE  [description |-> Optional(Text(d.items[i].description)),
                quantity |-> Optional(Text(d.items[i].quantity)),
                unit_price |-> Optional(Text(d.items[i].unit_price))] = d.items[i]
    <3>1. d.items[i] \in Item
      BY <2>1, <2>2
    <3>2. /\ Optional(Text(d.items[i].description)) = d.items[i].description
          /\ Optional(Text(d.items[i].quantity)) = d.items[i].quantity
          /\ Optional(Text(d.items[i].unit_price)) = d.items[i].unit_price
      BY <1>1, <1>2, <3>1 DEF Item
    <3> QED BY <3>1, <3>2 DEF Item
  <2>3. DOMAIN p.items = DOMAIN d.items
    BY <1>4
  <2>4. q.items = [i \in DOMAIN d.items |-> d.items[i]]
    BY <1>3, <1>4, <2>2, <2>3
  <2> QED BY <2>1, <2>4
<1> QED
  BY <1>3, <1>5, <1>6, <1>7, <1>8 DEF Fields, p, q

\* invoice_draft_to_create never fails on a draft for which
\* find_missing_invoice_fields finds nothing.
THEOREM NothingMissingIsAccepted ==
    ASSUME NEW d \in Fields, Valid(d), Missing(d) = {}
    PROVE  CreateAccepts(d)
<1>1. \A f \in RequiredTexts \cap TextFields : d.texts[f] # None
  BY DEF Missing, MissingTexts
<1>2. d.issue_date # None /\ d.items # <<>>
  BY DEF Missing
<1>3. ASSUME NEW i \in DOMAIN d.items
      PROVE  ItemAccepted(d.items[i])
  <2>1. MissingOfItem(i, d.items[i]) = {}
    BY <1>3 DEF Missing
  <2> QED BY <2>1 DEF MissingOfItem, ItemAccepted, ItemParts
<1> QED BY <1>1, <1>2, <1>3 DEF CreateAccepts, Valid

\* What find_missing_invoice_fields finds, field by field.
LEMMA MissingText ==
    ASSUME NEW d, NEW f \in TextFields
    PROVE  Field(f) \in Missing(d) <=> f \in RequiredTexts /\ d.texts[f] = None
<1>1. f # "issue_date" /\ f # "items"
  BY TextsAssumption DEF RequiredTexts, OptionalTexts
<1>2. \A i, part : Field(f) # PartOf(i, part)
  BY <1>1 DEF Field, PartOf
<1>3. Field(f) # Field("issue_date") /\ Field(f) # Field("items")
  BY <1>1 DEF Field
<1>4. \A g : Field(f) = Field(g) => g = f
  BY DEF Field
<1>5. Field(f) \in MissingTexts(d) <=> f \in RequiredTexts /\ d.texts[f] = None
  BY <1>4 DEF MissingTexts
<1> QED BY <1>2, <1>3, <1>5 DEF Missing, MissingOfItem

LEMMA MissingDate ==
    ASSUME NEW d
    PROVE  Field("issue_date") \in Missing(d) <=> d.issue_date = None
<1>1. \A i, part : Field("issue_date") # PartOf(i, part)
  BY DEF Field, PartOf
<1>2. Field("issue_date") \notin MissingTexts(d)
  BY DEF MissingTexts, Field, RequiredTexts
<1>3. Field("issue_date") # Field("items")
  BY DEF Field
<1> QED BY <1>1, <1>2, <1>3 DEF Missing, MissingOfItem

ItemsAccepted(d) == d.items # <<>> /\ \A i \in DOMAIN d.items : ItemAccepted(d.items[i])

LEMMA MissingItems ==
    ASSUME NEW d
    PROVE  (\E m \in Missing(d) : m.field = "items") <=> ~ ItemsAccepted(d)
<1>1. \A i, part : PartOf(i, part).field = "items"
  BY DEF PartOf
<1>2. Field("items").field = "items" /\ Field("issue_date").field = "issue_date"
  BY DEF Field
<1>3. \A m \in MissingTexts(d) : m.field # "items"
  BY DEF MissingTexts, Field, RequiredTexts
<1>4. \A i : MissingOfItem(i, d.items[i]) # {} <=> ~ ItemAccepted(d.items[i])
  BY DEF MissingOfItem, ItemAccepted, ItemParts
<1>5. \A i : \A m \in MissingOfItem(i, d.items[i]) : m.field = "items"
  BY <1>1 DEF MissingOfItem
<1>6. CASE ItemsAccepted(d)
  BY <1>2, <1>3, <1>4, <1>6 DEF Missing, ItemsAccepted
<1>7. CASE d.items = <<>>
  BY <1>2, <1>7 DEF Missing, ItemsAccepted
<1>8. ASSUME NEW i \in DOMAIN d.items, ~ ItemAccepted(d.items[i])
      PROVE  (\E m \in Missing(d) : m.field = "items") /\ ~ ItemsAccepted(d)
  <2>1. PICK m \in MissingOfItem(i, d.items[i]) : m.field = "items"
    BY <1>4, <1>5, <1>8
  <2> QED BY <1>8, <2>1 DEF Missing, ItemsAccepted
<1> QED BY <1>6, <1>7, <1>8 DEF ItemsAccepted

LEMMA MissingKinds ==
    ASSUME NEW d, NEW m \in Missing(d), m.field # "items"
    PROVE  \/ \E f \in RequiredTexts \cap TextFields : m = Field(f) /\ d.texts[f] = None
           \/ m = Field("issue_date") /\ d.issue_date = None
<1>1. \A i : m \notin MissingOfItem(i, d.items[i])
  BY DEF MissingOfItem, PartOf
<1>2. m # Field("items")
  BY DEF Field
<1> QED BY <1>1, <1>2 DEF Missing, MissingTexts

-----------------------------------------------------------------------------
(* The invariant. *)

\* What the session of c holds against what c was told before.
Agrees(c, got, heard) == got = heard \/ (got = None /\ ~whole[c])

SessionAgrees(c) ==
    /\ session[c] = None => told[c] = EmptyDraft
    /\ session[c] # None =>
        /\ Valid(session[c])
        /\ \A f \in TextFields : Agrees(c, session[c].texts[f], told[c].texts[f])
        /\ Agrees(c, session[c].issue_date, told[c].issue_date)
        /\ Agrees(c, session[c].due_date, told[c].due_date)

CallAgrees(c) ==
    /\ call[c].phase = "idle" => call[c].status = "none"
    /\ call[c].phase # "idle" =>
        /\ Valid(message[c])
        /\ call[c].draft = NextDraft(session[c], message[c])
    /\ call[c].status \in {"missing", "created"} =>
        /\ call[c].phase = "answered"
        /\ call[c].result = call[c].draft
    /\ call[c].status = "missing" =>
          call[c].missing = Missing(call[c].result) /\ call[c].missing # {}
    /\ call[c].status = "created" => Missing(call[c].result) = {}

FormsAreValid == \A f \in Forms : call[f].phase = "completing" => Valid(call[f].result)

IInv ==
    /\ TypeOK
    /\ \A c \in Chats : SessionAgrees(c) /\ CallAgrees(c)
    /\ DocumentAcceptsDrafts
    /\ FormsAreValid

LEMMA NextDraftType ==
    ASSUME NEW stored \in Maybe(Fields), NEW new \in Fields
    PROVE  /\ NextDraft(stored, new) \in Fields
           /\ Valid(new) => Valid(NextDraft(stored, new))
BY MergeType DEF NextDraft, Maybe

LEMMA InitInv == Init => IInv
<1> SUFFICES ASSUME Init PROVE IInv
  OBVIOUS
<1>1. TypeOK
  BY EmptyDraftType, NoCallType DEF Init, TypeOK, Form, Maybe
<1>2. ASSUME NEW c \in Chats PROVE SessionAgrees(c) /\ CallAgrees(c) /\ call[c].status # "invalid"
  BY DEF Init, SessionAgrees, CallAgrees, NoCall, Callers
<1>3. FormsAreValid
  BY DEF Init, FormsAreValid, NoCall, Callers
<1> QED BY <1>1, <1>2, <1>3 DEF IInv, DocumentAcceptsDrafts

(* What Heard, Merged and the draft of a call have to do with each other. *)
LEMMA DraftSays ==
    ASSUME TypeOK, NEW c \in Chats, SessionAgrees(c), Valid(message[c]),
           call[c].draft = NextDraft(session[c], message[c])
    PROVE  /\ \A f \in TextFields : Says(c, call[c].draft.texts[f], Heard(c).texts[f])
           /\ Says(c, call[c].draft.issue_date, Heard(c).issue_date)
           /\ Says(c, call[c].draft.due_date, Heard(c).due_date)
           /\ call[c].draft.items = message[c].items
<1> DEFINE d == call[c].draft
           s == session[c]
           m == message[c]
           k == told[c]
<1>1. m \in Fields /\ k \in Fields /\ s \in Maybe(Fields)
  BY DEF TypeOK
<1>2. /\ Heard(c).texts = [f \in TextFields |-> IF m.texts[f] = None THEN k.texts[f] ELSE m.texts[f]]
      /\ Heard(c).issue_date = IF m.issue_date = None THEN k.issue_date ELSE m.issue_date
      /\ Heard(c).due_date = IF m.due_date = None THEN k.due_date ELSE m.due_date
  BY DEF Heard, Remember
<1>3. Merged(c) <=> whole[c] /\ (s # None => d = DeepMerge(s, m))
  BY DEF Merged
<1>a. d = NextDraft(s, m) /\ Valid(m)
  OBVIOUS
<1> HIDE DEF d
<1>4. CASE s # None /\ Valid(DeepMerge(s, m))
  <2>1. d = DeepMerge(s, m)
    BY <1>4, <1>a DEF NextDraft
  <2>2. /\ d.texts = [f \in TextFields |-> IF m.texts[f] = None THEN s.texts[f] ELSE m.texts[f]]
        /\ d.issue_date = IF m.issue_date = None THEN s.issue_date ELSE m.issue_date
        /\ d.due_date = IF m.due_date = None THEN s.due_date ELSE m.due_date
        /\ d.items = m.items
    BY <2>1 DEF DeepMerge, Newer
  <2>3. Merged(c) <=> whole[c]
    BY <1>3, <2>1
  <2> QED BY <1>2, <1>4, <2>2, <2>3 DEF SessionAgrees, Agrees, Says, d
<1>5. CASE s # None /\ ~Valid(DeepMerge(s, m))
  <2>1. d = m
    BY <1>5, <1>a DEF NextDraft
  <2>2. ~Merged(c)
    BY <1>3, <1>5, <1>a, <2>1
  <2> QED BY <1>2, <2>1, <2>2 DEF Says, d
<1>6. CASE s = None
  <2>1. d = m
    BY <1>6, <1>a DEF NextDraft
  <2>2. k = EmptyDraft
    BY <1>6 DEF SessionAgrees
  <2> QED BY <1>2, <2>1, <2>2 DEF Says, EmptyDraft, d
<1> QED BY <1>4, <1>5, <1>6, <1>1

-----------------------------------------------------------------------------
(* The building blocks of the actions. *)

CallsOK == call \in [Callers -> Call]

LEMMA CallUpdated ==
    ASSUME CallsOK, NEW c \in Callers, NEW new \in Call, call' = [call EXCEPT ![c] = new]
    PROVE  /\ CallsOK'
           /\ call'[c] = new
           /\ \A o \in Callers \ {c} : call'[o] = call[o]
BY DEF CallsOK

LEMMA EndsEffect ==
    ASSUME CallsOK, NEW c \in Callers, NEW status \in Statuses, Ends(c, status)
    PROVE  /\ CallsOK'
           /\ call'[c] = [call[c] EXCEPT !.phase = "answered", !.status = status]
           /\ \A o \in Callers \ {c} : call'[o] = call[o]
<1>1. call[c] \in Call
  BY DEF CallsOK
<1> DEFINE new == [call[c] EXCEPT !.phase = "answered", !.status = status]
<1>2. new \in Call
  BY <1>1 DEF Call, Phases
<1>3. call' = [call EXCEPT ![c] = new]
  BY DEF Ends, CallsOK
<1> QED BY <1>2, <1>3, CallUpdated

\* What complete_draft does to a call, for its four outcomes.
LEMMA CompletedEffect ==
    ASSUME CallsOK, numbers \subseteq Values, NEW c \in Callers, NEW d \in Fields, Valid(d),
           call[c].status \in Statuses, Completed(c, d)
    PROVE  /\ CallsOK' /\ numbers' \subseteq Values
           /\ \A o \in Callers \ {c} : call'[o] = call[o]
           /\ call'[c].phase = "answered" /\ call'[c].draft = call[c].draft
           /\ call'[c].filled = call[c].filled /\ call'[c].result \in {d, call[c].result}
           /\ call'[c].status \in {"missing", "created", "conflict"}
           /\ call'[c].status \in {"missing", "created"} => call'[c].result = d
           /\ call'[c].status = "missing" => call'[c].missing = Missing(d) /\ Missing(d) # {}
           /\ call'[c].status = "created" => Missing(d) = {}
<1>1. call[c] \in Call
  BY DEF CallsOK
<1>2. CASE Missing(d) # {}
  <2> DEFINE new == [call[c] EXCEPT !.phase = "answered", !.status = "missing",
                                    !.result = d, !.missing = Missing(d)]
  <2>1. new \in Call
    BY <1>1, MissingType DEF Call, Phases, Statuses
  <2>2. call' = [call EXCEPT ![c] = new] /\ numbers' = numbers
    BY <1>2 DEF Completed, CallsOK
  <2>3. /\ new.phase = "answered" /\ new.draft = call[c].draft /\ new.status = "missing"
        /\ new.result = d /\ new.missing = Missing(d) /\ new.filled = call[c].filled
    BY <1>1 DEF Call
  <2> HIDE DEF new
  <2> QED BY <1>2, <2>1, <2>2, <2>3, CallUpdated
<1>3. CASE Missing(d) = {} /\ d.texts["invoice_number"] \in numbers
  <2>1. Ends(c, "conflict") /\ numbers' = numbers
    BY <1>3, NothingMissingIsAccepted DEF Completed
  <2>2. /\ CallsOK'
        /\ call'[c] = [call[c] EXCEPT !.phase = "answered", !.status = "conflict"]
        /\ \A o \in Callers \ {c} : call'[o] = call[o]
    BY <2>1, EndsEffect DEF Statuses
  <2> QED BY <1>1, <2>1, <2>2 DEF Call
<1>4. CASE Missing(d) = {} /\ d.texts["invoice_number"] \notin numbers
  <2> DEFINE new == [call[c] EXCEPT !.phase = "answered", !.status = "created", !.result = d]
  <2>1. new \in Call
    BY <1>1 DEF Call, Phases, Statuses
  <2>2. /\ call' = [call EXCEPT ![c] = new]
        /\ numbers' = numbers \cup {d.texts["invoice_number"]}
    BY <1>4, NothingMissingIsAccepted DEF Completed, CallsOK
  <2>3. d.texts["invoice_number"] \in Values
    <3>1. d.texts["invoice_number"] # None
      BY <1>4, NothingMissingIsAccepted, TextsAssumption DEF CreateAccepts, RequiredTexts
    <3> QED BY <3>1, TextsAssumption DEF Fields, Maybe
  <2>4. /\ new.phase = "answered" /\ new.draft = call[c].draft /\ new.status = "created"
        /\ new.result = d /\ new.filled = call[c].filled
    BY <1>1 DEF Call
  <2> HIDE DEF new
  <2> QED BY <1>4, <2>1, <2>2, <2>3, <2>4, CallUpdated
<1> QED BY <1>2, <1>3, <1>4

LEMMA ChatUntouched ==
    ASSUME NEW c \in Chats, SessionAgrees(c), CallAgrees(c), call[c].status # "invalid",
           call'[c] = call[c], session'[c] = session[c], told'[c] = told[c],
           whole'[c] = whole[c], message'[c] = message[c]
    PROVE  SessionAgrees(c)' /\ CallAgrees(c)' /\ call'[c].status # "invalid"
BY DEF SessionAgrees, CallAgrees, Agrees

\* A form moves: no chat notices.
LEMMA FormMoves ==
    ASSUME IInv, NEW f \in Forms, UNCHANGED <<session, history>>,
           call' \in [Callers -> Call], \A o \in Callers \ {f} : call'[o] = call[o],
           numbers' \subseteq Values, form' \in [Forms -> Form],
           call'[f].phase = "completing" => Valid(call'[f].result)
    PROVE  IInv'
<1>1. TypeOK'
  BY DEF IInv, TypeOK, history
<1>2. ASSUME NEW c \in Chats
      PROVE  SessionAgrees(c)' /\ CallAgrees(c)' /\ call'[c].status # "invalid"
  <2>1. call'[c] = call[c]
    BY CallersAssumption DEF Callers
  <2> QED BY <2>1, ChatUntouched DEF IInv, DocumentAcceptsDrafts, history
<1>3. FormsAreValid'
  BY DEF IInv, FormsAreValid, Callers
<1> QED BY <1>1, <1>2, <1>3 DEF IInv, DocumentAcceptsDrafts

\* A chat moves: the others do not notice.
LEMMA ChatMoves ==
    ASSUME IInv, NEW c \in Chats, TypeOK',
           \A o \in Callers \ {c} : call'[o] = call[o],
           \A o \in Chats \ {c} : /\ session'[o] = session[o] /\ told'[o] = told[o]
                                  /\ whole'[o] = whole[o] /\ message'[o] = message[o],
           SessionAgrees(c)', CallAgrees(c)', call'[c].status # "invalid"
    PROVE  IInv'
<1>1. ASSUME NEW o \in Chats
      PROVE  SessionAgrees(o)' /\ CallAgrees(o)' /\ call'[o].status # "invalid"
  BY ChatUntouched DEF IInv, DocumentAcceptsDrafts, Callers
<1>2. FormsAreValid'
  BY CallersAssumption DEF IInv, FormsAreValid, Callers
<1> QED BY <1>1, <1>2 DEF IInv, DocumentAcceptsDrafts

-----------------------------------------------------------------------------
(* One lemma per action. *)

LEMMA SendInv == ASSUME IInv, NEW c \in Chats, Send(c) PROVE IInv'
<1>1. PICK d \in Extractable :
        /\ message' = [message EXCEPT ![c] = d]
        /\ call' = [call EXCEPT ![c] =
              [NoCall EXCEPT !.phase = "completing", !.draft = NextDraft(session[c], d)]]
  BY DEF Send
<1>2. d \in Fields /\ Valid(d)
  BY ExtractableType
<1>3. CallsOK /\ c \in Callers /\ session[c] \in Maybe(Fields) /\ NextDraft(session[c], d) \in Fields
  BY <1>2, NextDraftType DEF IInv, TypeOK, CallsOK, Callers
<1> DEFINE new == [NoCall EXCEPT !.phase = "completing", !.draft = NextDraft(session[c], d)]
<1>4. new \in Call
  BY <1>3, NoCallType DEF Call, Phases
<1>5. new.phase = "completing" /\ new.status = "none" /\ new.draft = NextDraft(session[c], d)
  BY DEF NoCall
<1>6. call' = [call EXCEPT ![c] = new]
  BY <1>1
<1> HIDE DEF new
<1>7. CallsOK' /\ call'[c] = new /\ \A o \in Callers \ {c} : call'[o] = call[o]
  BY <1>3, <1>4, <1>6, CallUpdated
<1>8. /\ message' \in [Chats -> Fields] /\ message'[c] = d
      /\ \A o \in Chats \ {c} : message'[o] = message[o]
  BY <1>1, <1>2 DEF IInv, TypeOK
<1>9. UNCHANGED <<session, form, numbers, told, whole, asked>>
  BY DEF Send
<1>10. TypeOK'
  BY <1>7, <1>8, <1>9 DEF IInv, TypeOK, CallsOK
<1>11. SessionAgrees(c)'
  BY <1>9 DEF IInv, SessionAgrees, Agrees
<1>12. CallAgrees(c)' /\ call'[c].status # "invalid"
  BY <1>2, <1>5, <1>7, <1>8, <1>9 DEF CallAgrees
<1> QED BY <1>7, <1>8, <1>9, <1>10, <1>11, <1>12, ChatMoves

LEMMA CompleteDraftInv == ASSUME IInv, NEW c \in Chats, CompleteDraft(c) PROVE IInv'
<1>1. /\ CallsOK /\ c \in Callers /\ call[c] \in Call /\ session[c] \in Maybe(Fields)
      /\ message[c] \in Fields /\ numbers \subseteq Values
  BY DEF IInv, TypeOK, CallsOK, Callers
<1>2. /\ call[c].phase = "completing" /\ UNCHANGED <<session, form, history>>
  BY DEF CompleteDraft
<1>3. Valid(message[c]) /\ call[c].draft = NextDraft(session[c], message[c])
  BY <1>2 DEF IInv, CallAgrees
<1> DEFINE d == call[c].draft
<1>4. d \in Fields /\ Valid(d) /\ call[c].status \in Statuses
  BY <1>1, <1>3, NextDraftType DEF Call
<1>5. FromProto(ToProto(d)) = d
  BY <1>4, DraftsTravelUnchanged
<1>6. Completed(c, d)
  BY <1>4, <1>5 DEF CompleteDraft
<1>7. /\ CallsOK' /\ numbers' \subseteq Values
      /\ \A o \in Callers \ {c} : call'[o] = call[o]
      /\ call'[c].phase = "answered" /\ call'[c].draft = d
      /\ call'[c].status \in {"missing", "created", "conflict"}
      /\ call'[c].status \in {"missing", "created"} => call'[c].result = d
      /\ call'[c].status = "missing" => call'[c].missing = Missing(d) /\ Missing(d) # {}
      /\ call'[c].status = "created" => Missing(d) = {}
  <2> HIDE DEF d
  <2>1. call[c].draft = d
    BY DEF d
  <2> QED BY <1>1, <1>4, <1>6, <2>1, CompletedEffect
<1>8. TypeOK'
  BY <1>2, <1>7 DEF IInv, TypeOK, CallsOK, history
<1>9. SessionAgrees(c)'
  BY <1>2 DEF IInv, SessionAgrees, Agrees, history
<1>10. CallAgrees(c)' /\ call'[c].status # "invalid"
  BY <1>2, <1>3, <1>7 DEF CallAgrees, history
<1> QED BY <1>2, <1>7, <1>8, <1>9, <1>10, ChatMoves DEF history

LEMMA UnavailableInv == ASSUME IInv, NEW c \in Chats, Unavailable(c) PROVE IInv'
<1>1. CallsOK /\ c \in Callers /\ call[c] \in Call
  BY DEF IInv, TypeOK, CallsOK, Callers
<1>2. /\ call[c].phase # "idle" /\ Ends(c, "unavailable")
      /\ UNCHANGED <<session, form, numbers, history>>
  BY DEF Unavailable
<1>3. /\ CallsOK' /\ call'[c] = [call[c] EXCEPT !.phase = "answered", !.status = "unavailable"]
      /\ \A o \in Callers \ {c} : call'[o] = call[o]
  BY <1>1, <1>2, EndsEffect DEF Statuses
<1>4. call'[c].phase = "answered" /\ call'[c].status = "unavailable" /\ call'[c].draft = call[c].draft
  BY <1>1, <1>3 DEF Call
<1>5. TypeOK'
  BY <1>2, <1>3 DEF IInv, TypeOK, CallsOK, history
<1>6. SessionAgrees(c)'
  BY <1>2 DEF IInv, SessionAgrees, Agrees, history
<1>7. CallAgrees(c)'
  BY <1>2, <1>4 DEF IInv, CallAgrees, history
<1> QED BY <1>2, <1>3, <1>4, <1>5, <1>6, <1>7, ChatMoves DEF history

LEMMA AskInv == ASSUME IInv, NEW c \in Chats, Ask(c) PROVE IInv'
<1>1. /\ CallsOK /\ c \in Callers /\ call[c] \in Call /\ session[c] \in Maybe(Fields)
      /\ message[c] \in Fields /\ told[c] \in Fields /\ whole[c] \in BOOLEAN
  BY DEF IInv, TypeOK, CallsOK, Callers
<1>2. /\ call[c].phase = "answered" /\ call[c].status = "missing"
      /\ session' = [session EXCEPT ![c] = call[c].draft]
      /\ call' = [call EXCEPT ![c] = NoCall]
      /\ told' = [told EXCEPT ![c] = Remember(told[c], message[c])]
      /\ whole' = [whole EXCEPT ![c] = Merged(c)]
      /\ asked' = [asked EXCEPT ![c] = call[c].missing]
      /\ message' = [message EXCEPT ![c] = EmptyDraft]
      /\ UNCHANGED <<form, numbers>>
  BY DEF Ask, IInv, TypeOK
<1>3. /\ Valid(message[c]) /\ call[c].draft = NextDraft(session[c], message[c])
      /\ SessionAgrees(c) /\ TypeOK
  BY <1>2 DEF IInv, CallAgrees
<1>4. call[c].draft \in Fields /\ Valid(call[c].draft)
  BY <1>1, <1>3, NextDraftType
<1>5. Merged(c) \in BOOLEAN
  BY <1>1 DEF Merged
<1>6. CallsOK' /\ call'[c] = NoCall /\ \A o \in Callers \ {c} : call'[o] = call[o]
  BY <1>1, <1>2, NoCallType, CallUpdated
<1>7. TypeOK'
  <2>1. session' \in [Chats -> Maybe(Fields)]
    BY <1>2, <1>4 DEF IInv, TypeOK, Maybe
  <2>2. told' \in [Chats -> Fields] /\ message' \in [Chats -> Fields]
    BY <1>1, <1>2, RememberType, EmptyDraftType DEF IInv, TypeOK
  <2>3. whole' \in [Chats -> BOOLEAN]
    BY <1>2, <1>5 DEF IInv, TypeOK
  <2>4. asked' \in [Chats -> SUBSET Needed]
    BY <1>1, <1>2 DEF IInv, TypeOK, Call
  <2> QED BY <1>2, <1>6, <2>1, <2>2, <2>3, <2>4 DEF IInv, TypeOK, CallsOK
<1>8. /\ session'[c] = call[c].draft /\ told'[c] = Heard(c) /\ whole'[c] = Merged(c)
      /\ \A o \in Chats \ {c} : /\ session'[o] = session[o] /\ told'[o] = told[o]
                               /\ whole'[o] = whole[o] /\ message'[o] = message[o]
  BY <1>2 DEF IInv, TypeOK, Heard
<1>9. SessionAgrees(c)'
  <2>1. session'[c] # None
    BY <1>4, <1>8, NoDraftAssumption
  <2>2. /\ \A f \in TextFields : Says(c, call[c].draft.texts[f], Heard(c).texts[f])
        /\ Says(c, call[c].draft.issue_date, Heard(c).issue_date)
        /\ Says(c, call[c].draft.due_date, Heard(c).due_date)
    BY <1>3, DraftSays
  <2> QED BY <1>4, <1>8, <2>1, <2>2 DEF SessionAgrees, Agrees, Says
<1>10. CallAgrees(c)' /\ call'[c].status # "invalid"
  BY <1>6 DEF CallAgrees, NoCall
<1> QED BY <1>6, <1>7, <1>8, <1>9, <1>10, ChatMoves

LEMMA ReportInv == ASSUME IInv, NEW c \in Chats, Report(c) PROVE IInv'
<1>1. CallsOK /\ c \in Callers
  BY DEF IInv, TypeOK, CallsOK, Callers
<1>2. /\ session' = [session EXCEPT ![c] = None]
      /\ call' = [call EXCEPT ![c] = NoCall]
      /\ told' = [told EXCEPT ![c] = EmptyDraft]
      /\ whole' = [whole EXCEPT ![c] = TRUE]
      /\ asked' = [asked EXCEPT ![c] = {}]
      /\ message' = [message EXCEPT ![c] = EmptyDraft]
      /\ UNCHANGED <<form, numbers>>
  BY DEF Report
<1>3. CallsOK' /\ call'[c] = NoCall /\ \A o \in Callers \ {c} : call'[o] = call[o]
  BY <1>1, <1>2, NoCallType, CallUpdated
<1>4. TypeOK'
  BY <1>2, <1>3, EmptyDraftType DEF IInv, TypeOK, CallsOK, Maybe
<1>5. /\ session'[c] = None /\ told'[c] = EmptyDraft
      /\ \A o \in Chats \ {c} : /\ session'[o] = session[o] /\ told'[o] = told[o]
                               /\ whole'[o] = whole[o] /\ message'[o] = message[o]
  BY <1>2 DEF IInv, TypeOK
<1>6. SessionAgrees(c)' /\ CallAgrees(c)' /\ call'[c].status # "invalid"
  BY <1>3, <1>5 DEF SessionAgrees, CallAgrees, NoCall
<1> QED BY <1>3, <1>4, <1>5, <1>6, ChatMoves

LEMMA FailInv == ASSUME IInv, NEW c \in Chats, Fail(c) PROVE IInv'
<1>1. CallsOK /\ c \in Callers
  BY DEF IInv, TypeOK, CallsOK, Callers
<1>2. /\ call' = [call EXCEPT ![c] = NoCall]
      /\ message' = [message EXCEPT ![c] = EmptyDraft]
      /\ UNCHANGED <<session, form, numbers, told, whole, asked>>
  BY DEF Fail
<1>3. CallsOK' /\ call'[c] = NoCall /\ \A o \in Callers \ {c} : call'[o] = call[o]
  BY <1>1, <1>2, NoCallType, CallUpdated
<1>4. TypeOK'
  BY <1>2, <1>3, EmptyDraftType DEF IInv, TypeOK, CallsOK
<1>5. \A o \in Chats \ {c} : message'[o] = message[o]
  BY <1>2 DEF IInv, TypeOK
<1>6. SessionAgrees(c)'
  BY <1>2 DEF IInv, SessionAgrees, Agrees
<1>7. CallAgrees(c)' /\ call'[c].status # "invalid"
  BY <1>3 DEF CallAgrees, NoCall
<1> QED BY <1>2, <1>3, <1>4, <1>5, <1>6, <1>7, ChatMoves

LEMMA PostInv ==
    ASSUME IInv, NEW f \in Forms, NEW d \in Fields, NEW filled \in BOOLEAN,
           Valid(d), Post(f, d, filled)
    PROVE  IInv'
<1>1. CallsOK /\ f \in Callers
  BY DEF IInv, TypeOK, CallsOK, Callers
<1> DEFINE new == [NoCall EXCEPT !.phase = "completing", !.draft = d, !.result = d,
                                 !.filled = filled]
<1>2. new \in Call
  BY NoCallType DEF Call, Phases
<1>3. call' = [call EXCEPT ![f] = new] /\ UNCHANGED <<session, form, numbers, history>>
  BY DEF Post
<1>4. new.result = d
  BY DEF NoCall
<1> HIDE DEF new
<1>5. CallsOK' /\ call'[f] = new /\ \A o \in Callers \ {f} : call'[o] = call[o]
  BY <1>1, <1>2, <1>3, CallUpdated
<1> QED BY <1>3, <1>4, <1>5, FormMoves DEF CallsOK, IInv, TypeOK

LEMMA SubmitInv == ASSUME IInv, NEW f \in Forms, Submit(f) PROVE IInv'
BY ExtractableType, PostInv DEF Submit

LEMMA FillInv == ASSUME IInv, NEW f \in Forms, Fill(f) PROVE IInv'
<1> DEFINE old == form[f].draft
           Put(field, new, keep) == IF field \in form[f].shown THEN new ELSE keep
           D(v, day) == [old EXCEPT
                !.texts = [field \in TextFields |-> Put(field, v, old.texts[field])],
                !.issue_date = Put("issue_date", day, @),
                !.raw_items = Put("items", v, @)]
<1>1. PICK v \in Values, day \in Dates : Valid(D(v, day)) /\ Post(f, D(v, day), TRUE)
  BY DEF Fill
<1>2. old \in Fields
  BY DEF IInv, TypeOK, Form
<1>3. D(v, day) \in Fields
  <2>1. [field \in TextFields |-> Put(field, v, old.texts[field])] \in [TextFields -> Maybe(Values)]
    BY <1>2 DEF Fields, Maybe
  <2>2. Put("issue_date", day, old.issue_date) \in Maybe(Dates)
    BY <1>2 DEF Fields, Maybe
  <2>3. Put("items", v, old.raw_items) \in Maybe(Values)
    BY <1>2 DEF Fields, Maybe
  <2> HIDE DEF Put, old
  <2> QED BY <1>2, <2>1, <2>2, <2>3 DEF Fields
<1> QED BY <1>1, <1>3, PostInv

LEMMA NormalizeInv == ASSUME IInv, NEW f \in Forms, Normalize(f) PROVE IInv'
<1>1. CallsOK /\ f \in Callers /\ call[f] \in Call
  BY DEF IInv, TypeOK, CallsOK, Callers
<1> DEFINE D(items) == [call[f].result EXCEPT !.items = items, !.raw_items = None]
<1>2. PICK items \in Offers \cup {<<>>} :
        Valid(D(items)) /\ call' = [call EXCEPT ![f].result = D(items)]
  BY DEF Normalize
<1>3. <<>> \in Seq(Item)
  OBVIOUS
<1>4. items \in Seq(Item)
  BY <1>3, OffersAssumption
<1>5. D(items) \in Fields
  BY <1>1, <1>4 DEF Call, Fields, Maybe
<1> DEFINE new == [call[f] EXCEPT !.result = D(items)]
<1>6. new \in Call /\ new.result = D(items)
  BY <1>1, <1>5 DEF Call
<1>7. call' = [call EXCEPT ![f] = new]
  BY <1>1, <1>2 DEF CallsOK
<1> HIDE DEF new
<1>8. CallsOK' /\ call'[f] = new /\ \A o \in Callers \ {f} : call'[o] = call[o]
  BY <1>1, <1>6, <1>7, CallUpdated
<1>9. UNCHANGED <<session, form, numbers, history>>
  BY DEF Normalize
<1> HIDE DEF D
<1> QED BY <1>2, <1>6, <1>8, <1>9, FormMoves DEF CallsOK, IInv, TypeOK

LEMMA NormalizeFailsInv == ASSUME IInv, NEW f \in Forms, NormalizeFails(f) PROVE IInv'
<1>1. CallsOK /\ f \in Callers
  BY DEF IInv, TypeOK, CallsOK, Callers
<1>2. PICK status \in {"unavailable", "invalid", "failed"} : Ends(f, status)
  BY DEF NormalizeFails
<1>3. /\ CallsOK' /\ call'[f] = [call[f] EXCEPT !.phase = "answered", !.status = status]
      /\ \A o \in Callers \ {f} : call'[o] = call[o]
  BY <1>1, <1>2, EndsEffect DEF Statuses
<1>4. call'[f].phase = "answered"
  BY <1>1, <1>3 DEF CallsOK, Call
<1>5. UNCHANGED <<session, form, numbers, history>>
  BY DEF NormalizeFails
<1> QED BY <1>3, <1>4, <1>5, FormMoves DEF CallsOK, IInv, TypeOK

LEMMA CompleteFormInv == ASSUME IInv, NEW f \in Forms, CompleteForm(f) PROVE IInv'
<1>1. CallsOK /\ f \in Callers /\ call[f] \in Call /\ numbers \subseteq Values
  BY DEF IInv, TypeOK, CallsOK, Callers
<1> DEFINE d == call[f].result
<1>2. d \in Fields /\ Valid(d) /\ call[f].status \in Statuses
  BY <1>1 DEF IInv, FormsAreValid, CompleteForm, Call
<1>3. Completed(f, d) /\ UNCHANGED <<session, form, history>>
  BY DEF CompleteForm
<1> HIDE DEF d
<1>4. /\ CallsOK' /\ numbers' \subseteq Values
      /\ \A o \in Callers \ {f} : call'[o] = call[o]
      /\ call'[f].phase = "answered"
  BY <1>1, <1>2, <1>3, CompletedEffect
<1> QED BY <1>3, <1>4, FormMoves DEF CallsOK, IInv, TypeOK

LEMMA AnswerFormInv == ASSUME IInv, NEW f \in Forms, AnswerForm(f) PROVE IInv'
<1>1. CallsOK /\ f \in Callers /\ call[f] \in Call
  BY DEF IInv, TypeOK, CallsOK, Callers
<1>2. call' = [call EXCEPT ![f] = NoCall] /\ UNCHANGED <<session, numbers, history>>
  BY DEF AnswerForm
<1>3. CallsOK' /\ call'[f] = NoCall /\ \A o \in Callers \ {f} : call'[o] = call[o]
  BY <1>1, <1>2, NoCallType, CallUpdated
<1> DEFINE new == IF call[f].status = "missing"
                  THEN [draft |-> call[f].draft, shown |-> FieldsToShow(call[f].missing)]
                  ELSE [draft |-> EmptyDraft, shown |-> {}]
<1>4. new \in Form
  BY <1>1, EmptyDraftType DEF Form, Call, FieldsToShow
<1>5. form' = [form EXCEPT ![f] = new]
  BY DEF AnswerForm
<1> HIDE DEF new
<1>6. form' \in [Forms -> Form]
  BY <1>4, <1>5 DEF IInv, TypeOK
<1>7. call'[f].phase = "idle"
  BY <1>3 DEF NoCall
<1> QED BY <1>2, <1>3, <1>6, <1>7, FormMoves DEF CallsOK, IInv, TypeOK

LEMMA Inductive == IInv /\ [Next]_vars => IInv'
<1> SUFFICES ASSUME IInv, [Next]_vars PROVE IInv'
  OBVIOUS
<1>1. CASE UNCHANGED vars
  BY <1>1 DEF vars, IInv, TypeOK, SessionAgrees, CallAgrees, Agrees, DocumentAcceptsDrafts,
              FormsAreValid
<1>2. ASSUME NEW c \in Chats,
             Send(c) \/ CompleteDraft(c) \/ Unavailable(c) \/ Ask(c) \/ Report(c) \/ Fail(c)
      PROVE  IInv'
  BY <1>2, SendInv, CompleteDraftInv, UnavailableInv, AskInv, ReportInv, FailInv
<1>3. ASSUME NEW f \in Forms,
             \/ Submit(f) \/ Fill(f) \/ Normalize(f) \/ NormalizeFails(f) \/ CompleteForm(f)
             \/ AnswerForm(f)
      PROVE  IInv'
  BY <1>3, SubmitInv, FillInv, NormalizeInv, NormalizeFailsInv, CompleteFormInv, AnswerFormInv
<1> QED BY <1>1, <1>2, <1>3 DEF Next

-----------------------------------------------------------------------------
(* The theorems. *)

LEMMA Invariant == Spec => []IInv
BY InitInv, Inductive, PTL DEF Spec

\* Sessions, calls and forms stay in their types.
THEOREM TypeCorrect == Spec => []TypeOK
<1>1. IInv => TypeOK
  BY DEF IInv
<1> QED BY <1>1, Invariant, PTL

\* No draft Chat sends is refused as invalid, whatever messages it came from.
THEOREM DraftsAccepted == Spec => []DocumentAcceptsDrafts
<1>1. IInv => DocumentAcceptsDrafts
  BY DEF IInv
<1> QED BY <1>1, Invariant, PTL

\* Invoices say what their chats were told.
THEOREM InvoicesAsTold == Spec => []InvoicesSayWhatWasTold
<1>1. IInv => InvoicesSayWhatWasTold
  <2> SUFFICES ASSUME IInv, NEW c \in Chats, call[c].status = "created"
               PROVE  /\ \A f \in TextFields : Says(c, call[c].result.texts[f], Heard(c).texts[f])
                      /\ Says(c, call[c].result.issue_date, Heard(c).issue_date)
                      /\ Says(c, call[c].result.due_date, Heard(c).due_date)
                      /\ call[c].result.items = Heard(c).items
    BY DEF InvoicesSayWhatWasTold
  <2>1. /\ TypeOK /\ SessionAgrees(c) /\ Valid(message[c])
        /\ call[c].draft = NextDraft(session[c], message[c])
        /\ call[c].result = call[c].draft /\ Missing(call[c].result) = {}
    BY DEF IInv, CallAgrees
  <2>2. call[c].draft.items = message[c].items
    BY <2>1, DraftSays
  <2>3. message[c].items # <<>>
    BY <2>1, <2>2 DEF Missing
  <2>4. call[c].result.items = Heard(c).items
    BY <2>1, <2>2, <2>3 DEF Heard, Remember
  <2> QED BY <2>1, <2>4, DraftSays
<1> QED BY <1>1, Invariant, PTL

\* What a chat knows it does not ask for, except items.
THEOREM KnownTextsKept == Spec => []KnownTextsAreNotAsked
<1>1. IInv => KnownTextsAreNotAsked
  <2> SUFFICES ASSUME IInv, NEW c \in Chats, call[c].status = "missing", Merged(c)
               PROVE  /\ \A f \in TextFields :
                            Field(f) \in call[c].missing => Heard(c).texts[f] = None
                      /\ Field("issue_date") \in call[c].missing => Heard(c).issue_date = None
    BY DEF KnownTextsAreNotAsked
  <2> DEFINE d == call[c].draft
  <2>1. /\ TypeOK /\ SessionAgrees(c) /\ Valid(message[c])
        /\ d = NextDraft(session[c], message[c])
        /\ call[c].missing = Missing(d)
    BY DEF IInv, CallAgrees
  <2>2. /\ \A f \in TextFields : d.texts[f] = Heard(c).texts[f]
        /\ d.issue_date = Heard(c).issue_date
    BY <2>1, DraftSays DEF Says
  <2> HIDE DEF d
  <2>3. call[c].missing = Missing(d)
    BY <2>1
  <2> HIDE DEF d
  <2> QED BY <2>2, <2>3, MissingText, MissingDate
<1> QED BY <1>1, Invariant, PTL

-----------------------------------------------------------------------------
(* A question that was answered is not asked again. *)

\* What was asked last is what the draft of the session misses.
AskedInv ==
    \A c \in Chats : asked[c] = IF session[c] = None THEN {} ELSE Missing(session[c])

LEMMA AskedInit == Init => AskedInv
BY DEF Init, AskedInv

LEMMA AskedNext == IInv /\ AskedInv /\ [Next]_vars => AskedInv'
<1> SUFFICES ASSUME IInv, AskedInv, [Next]_vars PROVE AskedInv'
  OBVIOUS
<1>1. ASSUME UNCHANGED <<session, asked>>
      PROVE  AskedInv'
  BY <1>1 DEF AskedInv
<1>2. ASSUME NEW c \in Chats, Ask(c)
      PROVE  AskedInv'
  <2>1. /\ call[c].status = "missing" /\ call[c] \in Call
        /\ session' = [session EXCEPT ![c] = call[c].draft]
        /\ asked' = [asked EXCEPT ![c] = call[c].missing]
    BY <1>2 DEF Ask, IInv, TypeOK, Callers
  <2>2. call[c].draft # None
    BY <2>1, NoDraftAssumption DEF Call
  <2>3. call[c].missing = Missing(call[c].draft)
    BY <2>1 DEF IInv, CallAgrees
  <2> QED BY <2>1, <2>2, <2>3 DEF AskedInv, IInv, TypeOK
<1>3. ASSUME NEW c \in Chats, Report(c)
      PROVE  AskedInv'
  BY <1>3 DEF Report, AskedInv, IInv, TypeOK
<1>4. ASSUME NEW c \in Chats, Send(c) \/ CompleteDraft(c) \/ Unavailable(c) \/ Fail(c)
      PROVE  AskedInv'
  BY <1>1, <1>4 DEF Send, CompleteDraft, Unavailable, Fail, history
<1>5. ASSUME NEW f \in Forms,
             \/ Submit(f) \/ Fill(f) \/ Normalize(f) \/ NormalizeFails(f) \/ CompleteForm(f)
             \/ AnswerForm(f)
      PROVE  AskedInv'
  BY <1>1, <1>5 DEF Submit, Fill, Post, Normalize, NormalizeFails, CompleteForm, AnswerForm, history
<1>6. CASE UNCHANGED vars
  BY <1>1, <1>6 DEF vars, history
<1> QED BY <1>2, <1>3, <1>4, <1>5, <1>6 DEF Next

\* A message that gives what was asked for, and its items in full, gets no other
\* question: what was merged before is what was not asked for.
THEOREM AnswersSuffice == Spec => []AnsweringCreates
<1>1. IInv /\ AskedInv => AnsweringCreates
  <2> SUFFICES ASSUME IInv, AskedInv, NEW c \in Chats, call[c].status = "missing", Merged(c),
                      asked[c] # {}, message[c].items # <<>>,
                      \A i \in DOMAIN message[c].items : ItemAccepted(message[c].items[i])
               PROVE  \/ \E f \in TextFields : Field(f) \in asked[c] /\ message[c].texts[f] = None
                      \/ Field("issue_date") \in asked[c] /\ message[c].issue_date = None
    BY DEF AnsweringCreates
  <2> DEFINE s == session[c]
             d == call[c].draft
  <2>1. s # None /\ asked[c] = Missing(s)
    BY DEF AskedInv
  <2>2. d = DeepMerge(s, message[c])
    BY <2>1 DEF Merged
  <2>3. call[c].missing = Missing(d) /\ call[c].missing # {}
    BY DEF IInv, CallAgrees
  <2>4. /\ d.texts = [f \in TextFields |-> Newer(s.texts[f], message[c].texts[f])]
        /\ d.issue_date = Newer(s.issue_date, message[c].issue_date)
        /\ d.items = message[c].items
    BY <2>2 DEF DeepMerge
  <2> HIDE DEF s, d
  <2>5. ItemsAccepted(d)
    BY <2>4 DEF ItemsAccepted
  <2>6. PICK m \in Missing(d) : m.field # "items"
    BY <2>3, <2>5, MissingItems
  <2>7. CASE \E f \in RequiredTexts \cap TextFields : m = Field(f) /\ d.texts[f] = None
    <3>1. PICK f \in RequiredTexts \cap TextFields : d.texts[f] = None
      BY <2>7
    <3>2. s.texts[f] = None /\ message[c].texts[f] = None
      BY <2>4, <3>1 DEF Newer
    <3> QED BY <2>1, <3>2, MissingText
  <2>8. CASE d.issue_date = None
    <3>1. s.issue_date = None /\ message[c].issue_date = None
      BY <2>4, <2>8 DEF Newer
    <3> QED BY <2>1, <3>1, MissingDate
  <2> QED BY <2>6, <2>7, <2>8, MissingKinds
<1> QED BY <1>1, Invariant, InitInv, Inductive, AskedInit, AskedNext, PTL DEF Spec

-----------------------------------------------------------------------------
(* Forms. *)

\* All texts and dates an invoice needs.
Headed(d) ==
    d.issue_date # None /\ \A f \in RequiredTexts \cap TextFields : d.texts[f] # None

\* Items in full, or text the model may find items in.
Itemized(d) == d.raw_items # None \/ ItemsAccepted(d)

\* Only the items of a form's draft change on the way to the invoice.
FormCallOK(call_) ==
    /\ call_.status = "missing" => call_.phase = "answered"
    /\ call_.phase # "idle" =>
        /\ call_.result.texts = call_.draft.texts
        /\ call_.result.issue_date = call_.draft.issue_date
        /\ call_.draft.raw_items = None => call_.result = call_.draft
        /\ call_.filled => Headed(call_.draft) /\ Itemized(call_.draft)
        /\ call_.status = "missing" =>
              call_.missing = Missing(call_.result) /\ call_.missing # {}

\* What is not shown is there already.
FormOK(form_) ==
    form_.shown # {} =>
        /\ "issue_date" \in form_.shown \/ form_.draft.issue_date # None
        /\ \A f \in RequiredTexts \cap TextFields :
              f \in form_.shown \/ form_.draft.texts[f] # None
        /\ "items" \in form_.shown \/ Itemized(form_.draft)

FormsInv == \A f \in Forms : FormCallOK(call[f]) /\ FormOK(form[f])

LEMMA FormsInit == Init => FormsInv
BY DEF Init, FormsInv, FormCallOK, FormOK, NoCall, Callers

LEMMA ChatsLeaveForms ==
    ASSUME CallsOK, NEW c \in Chats,
           Send(c) \/ CompleteDraft(c) \/ Unavailable(c) \/ Ask(c) \/ Report(c) \/ Fail(c)
    PROVE  form' = form /\ \A f \in Forms : call'[f] = call[f]
<1>1. ASSUME NEW new, call' = [call EXCEPT ![c] = new]
      PROVE  \A f \in Forms : call'[f] = call[f]
  BY <1>1, CallersAssumption DEF CallsOK, Callers
<1>2. ASSUME NEW status, Ends(c, status)
      PROVE  \A f \in Forms : call'[f] = call[f]
  BY <1>2, CallersAssumption DEF Ends, CallsOK, Callers
<1>3. ASSUME NEW d, Completed(c, d)
      PROVE  \A f \in Forms : call'[f] = call[f]
  BY <1>2, <1>3, CallersAssumption DEF Completed, CallsOK, Callers
<1>4. CASE Send(c) \/ Ask(c) \/ Report(c) \/ Fail(c)
  BY <1>1, <1>4 DEF Send, Ask, Report, Fail
<1>5. CASE CompleteDraft(c) \/ Unavailable(c)
  BY <1>2, <1>3, <1>5 DEF CompleteDraft, Unavailable
<1> QED BY <1>4, <1>5

\* A form moves, with what it leaves behind.
LEMMA OwnForm ==
    ASSUME FormsInv, NEW f \in Forms, \A o \in Callers \ {f} : call'[o] = call[o],
           \A o \in Forms \ {f} : form'[o] = form[o],
           FormCallOK(call'[f]), FormOK(form'[f])
    PROVE  FormsInv'
BY DEF FormsInv, Callers

LEMMA PostForm ==
    ASSUME IInv, FormsInv, NEW f \in Forms, NEW d \in Fields, NEW filled \in BOOLEAN,
           filled => Headed(d) /\ Itemized(d), Post(f, d, filled)
    PROVE  FormsInv'
<1> DEFINE new == [NoCall EXCEPT !.phase = "completing", !.draft = d, !.result = d,
                                 !.filled = filled]
<1>1. CallsOK /\ f \in Callers
  BY DEF IInv, TypeOK, CallsOK, Callers
<1>2. new \in Call
  BY NoCallType DEF Call, Phases
<1>3. call' = [call EXCEPT ![f] = new] /\ UNCHANGED form
  BY DEF Post
<1>4. /\ new.phase = "completing" /\ new.draft = d /\ new.result = d /\ new.filled = filled
      /\ new.status = "none"
  BY DEF NoCall
<1> HIDE DEF new
<1>5. call'[f] = new /\ \A o \in Callers \ {f} : call'[o] = call[o]
  BY <1>1, <1>2, <1>3, CallUpdated
<1>6. FormCallOK(new)
  BY <1>4 DEF FormCallOK
<1>7. FormOK(form'[f])
  BY <1>3 DEF FormsInv
<1> QED BY <1>3, <1>5, <1>6, <1>7, OwnForm

LEMMA FillForm ==
    ASSUME IInv, FormsInv, NEW f \in Forms, Fill(f)
    PROVE  FormsInv'
<1> DEFINE old == form[f].draft
           Put(field, new, keep) == IF field \in form[f].shown THEN new ELSE keep
           D(v, day) == [old EXCEPT
                !.texts = [field \in TextFields |-> Put(field, v, old.texts[field])],
                !.issue_date = Put("issue_date", day, @),
                !.raw_items = Put("items", v, @)]
<1>1. PICK v \in Values, day \in Dates : Valid(D(v, day)) /\ Post(f, D(v, day), TRUE)
  BY DEF Fill
<1>2. old \in Fields /\ form[f].shown # {} /\ FormOK(form[f])
  BY DEF IInv, TypeOK, Form, Fill, FormsInv
<1>3. v # None /\ day # None
  BY NoneAssumption
<1> DEFINE d == D(v, day)
<1>4. /\ \A field \in TextFields :
            d.texts[field] = IF field \in form[f].shown THEN v ELSE old.texts[field]
      /\ d.issue_date = IF "issue_date" \in form[f].shown THEN day ELSE old.issue_date
      /\ d.raw_items = IF "items" \in form[f].shown THEN v ELSE old.raw_items
      /\ d.items = old.items
  BY <1>2 DEF Fields
<1>5. d \in Fields
  <2>1. [field \in TextFields |-> Put(field, v, old.texts[field])] \in [TextFields -> Maybe(Values)]
    BY <1>2 DEF Fields, Maybe
  <2>2. Put("issue_date", day, old.issue_date) \in Maybe(Dates)
    BY <1>2 DEF Fields, Maybe
  <2>3. Put("items", v, old.raw_items) \in Maybe(Values)
    BY <1>2 DEF Fields, Maybe
  <2> HIDE DEF Put, old
  <2> QED BY <1>2, <2>1, <2>2, <2>3 DEF Fields
<1>6. Post(f, d, TRUE)
  BY <1>1
<1> HIDE DEF d, D, Put, old
<1>7. form[f].draft = old
  BY DEF old
<1>8. Headed(d) /\ Itemized(d)
  BY <1>2, <1>3, <1>4, <1>7 DEF Headed, Itemized, ItemsAccepted, FormOK
<1> QED BY <1>5, <1>6, <1>8, PostForm

LEMMA EndForm ==
    ASSUME CallsOK, FormsInv, NEW f \in Forms, UNCHANGED form,
           NEW status \in Statuses \ {"missing"}, call[f].phase # "idle", Ends(f, status)
    PROVE  FormsInv'
<1>1. call[f] \in Call /\ f \in Callers
  BY DEF CallsOK, Callers
<1>2. /\ call'[f] = [call[f] EXCEPT !.phase = "answered", !.status = status]
      /\ \A o \in Callers \ {f} : call'[o] = call[o]
  BY <1>1, EndsEffect
<1>3. /\ call'[f].phase = "answered" /\ call'[f].status = status
      /\ call'[f].draft = call[f].draft /\ call'[f].result = call[f].result
      /\ call'[f].filled = call[f].filled
  BY <1>1, <1>2 DEF Call
<1>4. FormCallOK(call'[f]) /\ FormOK(form'[f])
  BY <1>3 DEF FormsInv, FormCallOK
<1> QED BY <1>2, <1>4, OwnForm

LEMMA NormalizeForm ==
    ASSUME IInv, FormsInv, NEW f \in Forms, Normalize(f) \/ NormalizeFails(f)
    PROVE  FormsInv'
<1>1. CallsOK /\ f \in Callers /\ call[f] \in Call
  BY DEF IInv, TypeOK, CallsOK, Callers
<1>2. call[f].phase = "completing" /\ call[f].result.raw_items # None /\ UNCHANGED form
  BY DEF Normalize, NormalizeFails
<1>3. CASE NormalizeFails(f)
  BY <1>1, <1>2, <1>3, EndForm DEF NormalizeFails, Statuses
<1>4. CASE Normalize(f)
  <2> DEFINE D(items) == [call[f].result EXCEPT !.items = items, !.raw_items = None]
  <2>1. PICK items \in Offers \cup {<<>>} : call' = [call EXCEPT ![f].result = D(items)]
    BY <1>4 DEF Normalize
  <2> DEFINE new == [call[f] EXCEPT !.result = D(items)]
  <2>2. /\ new.phase = call[f].phase /\ new.status = call[f].status /\ new.draft = call[f].draft
        /\ new.filled = call[f].filled
        /\ new.result.texts = call[f].result.texts
        /\ new.result.issue_date = call[f].result.issue_date
    BY <1>1 DEF Call, Fields
  <2>3. call' = [call EXCEPT ![f] = new]
    BY <1>1, <2>1 DEF CallsOK
  <2> HIDE DEF new
  <2>4. call'[f] = new /\ \A o \in Callers \ {f} : call'[o] = call[o]
    BY <1>1, <2>3 DEF CallsOK
  <2>5. call[f].draft.raw_items # None
    BY <1>2 DEF FormsInv, FormCallOK
  <2>6. FormCallOK(new) /\ FormOK(form'[f])
    BY <1>2, <2>2, <2>5 DEF FormsInv, FormCallOK
  <2> QED BY <1>2, <2>4, <2>6, OwnForm
<1> QED BY <1>3, <1>4

LEMMA CompleteOneForm ==
    ASSUME IInv, FormsInv, NEW f \in Forms, CompleteForm(f)
    PROVE  FormsInv'
<1>1. CallsOK /\ f \in Callers /\ call[f] \in Call /\ numbers \subseteq Values
  BY DEF IInv, TypeOK, CallsOK, Callers
<1> DEFINE d == call[f].result
<1>2. d \in Fields /\ Valid(d) /\ call[f].status \in Statuses
  BY <1>1 DEF IInv, FormsAreValid, CompleteForm, Call
<1>3. Completed(f, d) /\ UNCHANGED form /\ call[f].phase = "completing"
  BY DEF CompleteForm
<1>4. call[f].result = d
  OBVIOUS
<1> HIDE DEF d
<1>5. /\ \A o \in Callers \ {f} : call'[o] = call[o]
      /\ call'[f].phase = "answered" /\ call'[f].draft = call[f].draft
      /\ call'[f].filled = call[f].filled /\ call'[f].result \in {d, call[f].result}
      /\ call'[f].status = "missing" => call'[f].missing = Missing(d) /\ Missing(d) # {}
  BY <1>1, <1>2, <1>3, CompletedEffect
<1>6. FormCallOK(call[f]) /\ FormOK(form'[f])
  BY <1>3 DEF FormsInv
<1>7. FormCallOK(call'[f])
  BY <1>3, <1>4, <1>5, <1>6 DEF FormCallOK
<1> QED BY <1>3, <1>5, <1>6, <1>7, OwnForm

LEMMA AnswerOneForm ==
    ASSUME IInv, FormsInv, NEW f \in Forms, AnswerForm(f)
    PROVE  FormsInv'
<1>1. CallsOK /\ f \in Callers /\ call[f] \in Call /\ FormCallOK(call[f])
  BY DEF IInv, TypeOK, CallsOK, Callers, FormsInv
<1>2. call[f].phase = "answered" /\ call' = [call EXCEPT ![f] = NoCall]
  BY DEF AnswerForm
<1>3. call'[f] = NoCall /\ \A o \in Callers \ {f} : call'[o] = call[o]
  BY <1>1, <1>2, NoCallType, CallUpdated
<1>4. FormCallOK(call'[f])
  BY <1>3 DEF FormCallOK, NoCall
<1> DEFINE d     == call[f].draft
           r     == call[f].result
           shown == FieldsToShow(call[f].missing)
           new   == IF call[f].status = "missing"
                    THEN [draft |-> d, shown |-> shown]
                    ELSE [draft |-> EmptyDraft, shown |-> {}]
<1>5. form'[f] = new /\ \A o \in Forms \ {f} : form'[o] = form[o]
  BY DEF AnswerForm, IInv, TypeOK
<1>6. CASE call[f].status = "missing"
  <2>1. /\ r.texts = d.texts /\ r.issue_date = d.issue_date
        /\ d.raw_items = None => r = d
        /\ call[f].missing = Missing(r)
    BY <1>1, <1>2, <1>6 DEF FormCallOK
  <2>2. \A m \in Missing(r) : m.field \in FieldDefinitions
    BY <1>1, MissingType DEF Call, Needed
  <2>3. \A m \in Missing(r) : m.field \in shown
    BY <2>1, <2>2 DEF FieldsToShow
  <2> HIDE DEF d, r, shown
  <2>4. "issue_date" \in shown \/ d.issue_date # None
    BY <2>1, <2>3, MissingDate DEF Field
  <2>5. ASSUME NEW g \in RequiredTexts \cap TextFields
        PROVE  g \in shown \/ d.texts[g] # None
    <3>1. Field(g).field = g
      BY DEF Field
    <3> QED BY <2>1, <2>3, <3>1, MissingText
  <2>6. "items" \in shown \/ Itemized(d)
    BY <2>1, <2>3, MissingItems DEF Itemized
  <2>7. new.draft = d /\ new.shown = shown
    BY <1>6
  <2> HIDE DEF new
  <2>8. FormOK(new)
    BY <2>4, <2>5, <2>6, <2>7 DEF FormOK
  <2> QED BY <1>3, <1>4, <1>5, <2>8, OwnForm
<1>7. CASE call[f].status # "missing"
  <2>1. FormOK(form'[f])
    BY <1>5, <1>7 DEF FormOK
  <2> QED BY <1>3, <1>4, <1>5, <2>1, OwnForm
<1> QED BY <1>6, <1>7

LEMMA FormsNext == IInv /\ FormsInv /\ [Next]_vars => FormsInv'
<1> SUFFICES ASSUME IInv, FormsInv, [Next]_vars PROVE FormsInv'
  OBVIOUS
<1>1. CASE UNCHANGED vars
  BY <1>1 DEF vars, FormsInv
<1>2. ASSUME NEW c \in Chats,
             Send(c) \/ CompleteDraft(c) \/ Unavailable(c) \/ Ask(c) \/ Report(c) \/ Fail(c)
      PROVE  FormsInv'
  <2>1. form' = form /\ \A f \in Forms : call'[f] = call[f]
    BY <1>2, ChatsLeaveForms DEF IInv, TypeOK, CallsOK
  <2> QED BY <2>1 DEF FormsInv
<1>3. ASSUME NEW f \in Forms, Submit(f)
      PROVE  FormsInv'
  BY <1>3, ExtractableType, PostForm DEF Submit
<1>4. ASSUME NEW f \in Forms,
             Fill(f) \/ Normalize(f) \/ NormalizeFails(f) \/ CompleteForm(f) \/ AnswerForm(f)
      PROVE  FormsInv'
  BY <1>4, FillForm, NormalizeForm, CompleteOneForm, AnswerOneForm
<1> QED BY <1>1, <1>2, <1>3, <1>4 DEF Next

\* A form in which everything it showed was filled in shows, at most, items again.
THEOREM FilledFormsSuffice == Spec => []FilledFormsMissOnlyItems
<1>1. IInv /\ FormsInv => FilledFormsMissOnlyItems
  <2> SUFFICES ASSUME FormsInv, NEW f \in Forms, call[f].status = "missing", call[f].filled
               PROVE  /\ call[f].draft.raw_items # None
                      /\ \A m \in call[f].missing : m.field = "items"
    BY DEF FilledFormsMissOnlyItems
  <2> DEFINE d == call[f].draft
             r == call[f].result
  <2>1. /\ r.texts = d.texts /\ r.issue_date = d.issue_date
        /\ d.raw_items = None => r = d
        /\ Headed(d) /\ Itemized(d)
        /\ call[f].missing = Missing(r) /\ call[f].missing # {}
    BY DEF FormsInv, FormCallOK
  <2> HIDE DEF d, r
  <2>2. \A m \in Missing(r) : m.field = "items"
    BY <2>1, MissingKinds DEF Headed
  <2>3. d.raw_items # None
    BY <2>1, <2>2, MissingItems DEF Itemized
  <2> QED BY <2>1, <2>2, <2>3 DEF d
<1> QED BY <1>1, Invariant, InitInv, Inductive, FormsInit, FormsNext, PTL DEF Spec
=============================================================================
