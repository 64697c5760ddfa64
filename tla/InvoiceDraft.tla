---------------------------- MODULE InvoiceDraft ----------------------------
(***************************************************************************)
(* Drafts of invoices: what the schemas of Document and Chat accept, what  *)
(* a draft still misses, which form fields that shows, how the protobuf    *)
(* messages carry a draft, how Chat merges the next message into it, and   *)
(* what an invoice demands of the draft it is made from.                   *)
(*                                                                         *)
(* A text is a value or None; Blank is the empty string of a protobuf      *)
(* message.  Dates are numbers.  An item keeps which of its parts are      *)
(* known: its description, its quantity and its unit price, which may be   *)
(* zero.                                                                   *)
(***************************************************************************)
EXTENDS Naturals, Sequences, FiniteSets

CONSTANTS
    Values,     \* the texts a field can have
    TextFields, \* the fields of a draft that are texts: a subset of Texts
    Descriptions, \* the descriptions an item can have
    Dates,      \* a set of numbers
    Quantities, \* the quantities an item can have
    Prices,     \* the unit prices an item can have
    MaxItems,   \* the most items a draft may have (100 in the code)
    None, Blank

RequiredTexts == {"invoice_number", "currency", "business.name", "client.name"}
OptionalTexts ==
    {"template_language", "business.email", "business.address", "client.email",
     "client.address", "notes", "payment_terms"}

ASSUME TextsAssumption ==
    /\ TextFields \subseteq RequiredTexts \cup OptionalTexts
    /\ "invoice_number" \in TextFields
ASSUME NoneAssumption ==
    /\ None \notin Values \cup Descriptions \cup Dates \cup Quantities \cup Prices
    /\ Blank \notin Values \cup Descriptions \cup Dates \cup Quantities \cup Prices
    /\ None # Blank
ASSUME NumbersAssumption ==
    Dates \subseteq Nat /\ Quantities \subseteq Nat \ {0} /\ Prices \subseteq Nat
ASSUME MaxItemsAssumption == MaxItems \in Nat \ {0}

Maybe(S) == S \cup {None}

Item ==
    [description : Maybe(Descriptions), quantity : Maybe(Quantities), unit_price : Maybe(Prices)]

\* What a draft is made of, before validate_due_date looks at it.
Fields ==
    [texts : [TextFields -> Maybe(Values)], issue_date : Maybe(Dates),
     due_date : Maybe(Dates), items : Seq(Item), raw_items : Maybe(Values)]

DatesInOrder(d) ==
    d.issue_date # None /\ d.due_date # None => d.issue_date =< d.due_date

\* What InvoiceDraft.model_validate accepts.
Valid(d) == DatesInOrder(d) /\ Len(d.items) =< MaxItems

ASSUME NoDraftAssumption == None \notin Fields

EmptyDraft ==
    [texts |-> [f \in TextFields |-> None], issue_date |-> None, due_date |-> None,
     items |-> <<>>, raw_items |-> None]

-----------------------------------------------------------------------------
(* What is missing. *)

FieldDefinitions == RequiredTexts \cup {"issue_date", "items"}
ItemParts == {"description", "quantity", "unit_price"}

\* What is missing is a field as a whole or a part of an item.
Needed == [field : FieldDefinitions, item : Nat, part : ItemParts \cup {"all"}]

Field(f) == [field |-> f, item |-> 0, part |-> "all"]
PartOf(i, part) == [field |-> "items", item |-> i, part |-> part]

\* Mutant of MissingOfItem: a price of zero counts as missing, as "not" has it.
MissingOfFreeItem(i, item) ==
    {PartOf(i, part) : part \in {p \in ItemParts : item[p] = None \/ item[p] = 0}}

MissingOfItem(i, item) == {PartOf(i, part) : part \in {p \in ItemParts : item[p] = None}}

MissingTexts(d) == {Field(f) : f \in {g \in RequiredTexts \cap TextFields : d.texts[g] = None}}

\* find_missing_invoice_fields
Missing(d) ==
    MissingTexts(d)
        \cup (IF d.issue_date = None THEN {Field("issue_date")} ELSE {})
        \cup (IF d.items = <<>> THEN {Field("items")} ELSE {})
        \cup UNION {MissingOfItem(i, d.items[i]) : i \in DOMAIN d.items}

\* Mutant of FieldsToShow: a part of an item is not traced to the items.
FieldsToShowExactly(missing) == {f \in FieldDefinitions : Field(f) \in missing}

\* invoice_fields_to_show: the parts of items are one field of the form.
FieldsToShow(missing) == {f \in FieldDefinitions : \E m \in missing : m.field = f}

-----------------------------------------------------------------------------
(* What an invoice demands: InvoiceCreate.model_validate after invoice_draft_to_create. *)

ItemAccepted(item) ==
    item.description # None /\ item.quantity # None /\ item.unit_price # None

CreateAccepts(d) ==
    /\ \A f \in RequiredTexts \cap TextFields : d.texts[f] # None
    /\ d.issue_date # None
    /\ DatesInOrder(d)
    /\ d.items # <<>> /\ Len(d.items) =< MaxItems
    /\ \A i \in DOMAIN d.items : ItemAccepted(d.items[i])

-----------------------------------------------------------------------------
(* Protobuf messages: None travels as the empty string. *)

Text(v) == IF v = None THEN Blank ELSE v
Optional(v) == IF v = Blank THEN None ELSE v

Carried(d, conv(_)) ==
    [texts |-> [f \in TextFields |-> conv(d.texts[f])],
     issue_date |-> conv(d.issue_date), due_date |-> conv(d.due_date),
     items |-> [i \in DOMAIN d.items |->
         [description |-> conv(d.items[i].description),
          quantity |-> conv(d.items[i].quantity),
          unit_price |-> conv(d.items[i].unit_price)]],
     raw_items |-> conv(d.raw_items)]

ToProto(d)   == Carried(d, Text)
FromProto(p) == Carried(p, Optional)

-----------------------------------------------------------------------------
(* Merging the draft of the next message into the stored one.             *)
(* model_dump(exclude_none=True) leaves out what is None, never the items. *)

Newer(old, new) == IF new = None THEN old ELSE new

\* Mutant of DeepMerge: what is stored wins.
DeepMergeKeeping(old, new) ==
    [texts |-> [f \in TextFields |-> Newer(new.texts[f], old.texts[f])],
     issue_date |-> Newer(new.issue_date, old.issue_date),
     due_date |-> Newer(new.due_date, old.due_date),
     items |-> IF old.items = <<>> THEN new.items ELSE old.items,
     raw_items |-> Newer(new.raw_items, old.raw_items)]

\* Mutant of DeepMerge: the parties are replaced as a whole.
ShallowMerge(old, new) ==
    [texts |-> [f \in TextFields |->
         IF f \in {"business.name", "client.name"} THEN new.texts[f]
         ELSE Newer(old.texts[f], new.texts[f])],
     issue_date |-> Newer(old.issue_date, new.issue_date),
     due_date |-> Newer(old.due_date, new.due_date),
     items |-> new.items,
     raw_items |-> Newer(old.raw_items, new.raw_items)]

DeepMerge(old, new) ==
    [texts |-> [f \in TextFields |-> Newer(old.texts[f], new.texts[f])],
     issue_date |-> Newer(old.issue_date, new.issue_date),
     due_date |-> Newer(old.due_date, new.due_date),
     items |-> new.items,
     raw_items |-> Newer(old.raw_items, new.raw_items)]

\* Mutant of NextDraft: the merged draft is not validated.
NextDraftUnchecked(stored, new) ==
    IF stored # None THEN DeepMerge(stored, new) ELSE new

\* Mutant of NextDraft: it is given up for the stored one, which may not be there.
NextDraftStored(stored, new) ==
    IF stored # None /\ Valid(DeepMerge(stored, new)) THEN DeepMerge(stored, new) ELSE stored

\* A merged draft that does not validate is given up for the new one.
NextDraft(stored, new) ==
    IF stored # None /\ Valid(DeepMerge(stored, new)) THEN DeepMerge(stored, new) ELSE new
=============================================================================
