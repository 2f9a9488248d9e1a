------------------------------ MODULE Manifest ------------------------------
(***************************************************************************)
(* AutoManifest::Load: the callbacks of the XML parser over any well-formed *)
(* document, and the choice of the item that suits the host best.           *)
(*                                                                         *)
(* expat is external: it calls OnStartElement, OnEndElement and OnText in   *)
(* the order of the document, and stops when told to.  Names are compared   *)
(* without their updater: or sparkle: prefix; white space, and what is only *)
(* copied from an attribute, are left out.                                  *)
(***************************************************************************)
EXTENDS Integers, Sequences, SequencesExt

CONSTANTS
  ChannelName,  \* names of channels; "" is an omitted one
  FieldOrder,   \* the elements of an item that hold text, in the order of OnText
  Digit,        \* the pieces of text
  System,       \* the version of Windows of the host
  Events,       \* bound: the elements and the pieces of text of a document
  Depth         \* bound: how deep its elements stand in each other

Field   == ToSet(FieldOrder)
OSLabel == {"", "specific", "foreign"}

(* The major versions of Windows that the 12 bits of a weight tell apart. *)
MajorRange == 64 * 64

ASSUME ManifestAssumption ==
  /\ "" \in ChannelName /\ FieldOrder \in Seq(STRING)
  /\ Digit \subseteq 0..9 /\ System \in 0..(MajorRange - 1) /\ Events \in Nat /\ Depth \in Nat
  /\ Field \cap {"root", "channel", "item", "tags", "criticalUpdate"} = {}
  /\ "minimumSystemVersion" \in Field

VARIABLES
  required,  \* required_channel; the same in all the parse
  document,  \* what is open in the document, the outermost first
  events,    \* how many elements and pieces of text there were
  ctx,       \* the ParserContext
  \* history, read by the properties only:
  origin,    \* of each loaded item, the channel it stands in
  nested     \* there were tags inside tags

parser == <<required, document, events, ctx, origin, nested>>

-----------------------------------------------------------------------------
(* An open element; a channel has a name, and the event it began with.       *)
Element(e) == [kind |-> e, name |-> "", at |-> 0]
Nowhere    == Element("root")

Leveled == Field \cup {"criticalUpdate"}

EmptyItem == [build |-> "", os |-> "", text |-> [f \in Field |-> <<>>]]

EmptyContext ==
  [status |-> "none", name |-> "", inItem |-> FALSE, inTags |-> FALSE,
   level |-> [f \in Leveled |-> 0], items |-> <<>>, outcome |-> "parsing"]

ParserInit ==
  /\ required \in ChannelName
  /\ document = <<Nowhere>> /\ events = 0
  /\ ctx = EmptyContext
  /\ origin = <<>> /\ nested = FALSE

(* ParserError stops the parser for good. *)
Fail(c)       == [c EXCEPT !.outcome = "error"]
Current(c)    == Len(c.items)
InsideItem(c) == c.inItem /\ ~c.inTags

-----------------------------------------------------------------------------
(* OnStartElement. *)

EmptyOrRelease(name) == name \in {"", "release"}

ChannelMatch(name) == name = required \/ (EmptyOrRelease(name) /\ EmptyOrRelease(required))

StartChannel(c, name) ==
  IF c.status # "none" THEN Fail(c)
  ELSE IF ChannelMatch(name) THEN [c EXCEPT !.status = "active", !.name = name]
  ELSE [c EXCEPT !.status = "inactive", !.name = ""]

(* An item outside a channel is taken, and no channel may follow. *)
StartItem(c) ==
  IF c.inItem THEN Fail(c)
  ELSE IF c.status = "inactive" THEN c
  ELSE [c EXCEPT !.items = Append(@, [EmptyItem EXCEPT !.build = c.name]),
                 !.inItem = TRUE,
                 !.status = IF @ = "none" THEN "omitted" ELSE @]

StartInside(c, e) ==
  IF ~InsideItem(c) THEN c
  ELSE IF e = "tags" THEN [c EXCEPT !.inTags = TRUE]
  ELSE [c EXCEPT !.level[e] = @ + 1]

(* An enclosure may confirm the label of its channel and not change it. *)
Enclosure(c, build, os) ==
  LET item == c.items[Current(c)]
      Redefined(old, new) == new # "" /\ old # "" /\ old # new
      Kept(old, new) == IF new = "" THEN old ELSE new
  IN IF ~InsideItem(c) THEN c
     ELSE IF Redefined(item.build, build) \/ Redefined(item.os, os) THEN Fail(c)
     ELSE [c EXCEPT !.items[Current(c)].build = Kept(@, build),
                    !.items[Current(c)].os = Kept(@, os)]

-----------------------------------------------------------------------------
(* OnEndElement and OnText. *)

EndItem(c, e) ==
  CASE e \in Leveled -> [c EXCEPT !.level[e] = @ - 1]
    [] e = "item"    -> [c EXCEPT !.inItem = FALSE]
    [] OTHER         -> c

EndChannelOnly(c, e) ==
  IF e # "channel" THEN c ELSE [c EXCEPT !.status = "none"]

(* The first matching channel ends the search. *)
EndChannel(c, e) ==
  IF e # "channel" THEN c
  ELSE [c EXCEPT !.status = "none",
                 !.outcome = IF c.status = "active" THEN "complete" ELSE @]

EndCountsTags(c, e) ==
  CASE c.inTags /\ e = "tags" -> [c EXCEPT !.inTags = FALSE]
    [] c.inItem /\ (c.inTags => e # "tags") -> EndItem(c, e)
    [] ~c.inTags /\ ~c.inItem -> EndChannel(c, e)

OnEndElement(c, e) ==
  CASE c.inTags -> [c EXCEPT !.inTags = (e # "tags")]
    [] ~c.inTags /\ c.inItem -> EndItem(c, e)
    [] ~c.inTags /\ ~c.inItem -> EndChannel(c, e)

TextOfAnyDepth(c, s) ==
  LET i == SelectInSeq(FieldOrder, LAMBDA f : c.level[f] > 0)
  IN IF ~c.inItem \/ i = 0 THEN c
     ELSE [c EXCEPT !.items[Current(c)].text[FieldOrder[i]] = Append(@, s)]

(* The first field, in the order of OnText, that is open just once. *)
OnText(c, s) ==
  LET i == SelectInSeq(FieldOrder, LAMBDA f : c.level[f] = 1)
  IN IF ~InsideItem(c) \/ i = 0 THEN c
     ELSE [c EXCEPT !.items[Current(c)].text[FieldOrder[i]] = Append(@, s)]

-----------------------------------------------------------------------------
(* The document, event by event. *)

Parsing == ctx.outcome = "parsing"
Event   == Parsing /\ events < Events /\ events' = events + 1

Open(kind)    == \E d \in DOMAIN document : document[d].kind = kind
LastOpen(kind) == SelectLastInSeq(document, LAMBDA e : e.kind = kind)

Starts(element, c) ==
  /\ Event
  /\ Len(document) <= Depth
  /\ document' = Append(document, element)
  /\ ctx' = c
  /\ UNCHANGED required

ChannelStarts ==
  /\ \E name \in ChannelName :
       Starts([kind |-> "channel", name |-> name, at |-> events], StartChannel(ctx, name))
  /\ UNCHANGED <<origin, nested>>

ItemStarts ==
  /\ Starts(Element("item"), StartItem(ctx))
  /\ origin' = IF ctx'.items = ctx.items THEN origin
               ELSE Append(origin, IF Open("channel") THEN document[LastOpen("channel")]
                                                      ELSE Nowhere)
  /\ UNCHANGED nested

OtherStarts ==
  /\ \E e \in Leveled \cup {"tags"} :
       /\ Starts(Element(e), StartInside(ctx, e))
       /\ nested' = (nested \/ (e = "tags" /\ Open("tags")))
  /\ UNCHANGED origin

EnclosureStarts ==
  /\ Event
  /\ \E build \in ChannelName, os \in OSLabel : ctx' = Enclosure(ctx, build, os)
  /\ UNCHANGED <<required, document, origin, nested>>

ElementEnds ==
  /\ Parsing
  /\ Len(document) > 1
  /\ document' = Front(document)
  /\ ctx' = OnEndElement(ctx, Last(document).kind)
  /\ UNCHANGED <<required, events, origin, nested>>

TextComes ==
  /\ Event
  /\ \E s \in Digit : ctx' = OnText(ctx, s)
  /\ UNCHANGED <<required, document, origin, nested>>

(* The end tag of the root, or a document that is not well-formed. *)
DocumentEnds ==
  /\ Parsing
  /\ Len(document) = 1
  /\ ctx' = [ctx EXCEPT !.outcome = "end"]
  /\ UNCHANGED <<required, document, events, origin, nested>>

DocumentBreaks ==
  /\ Parsing
  /\ ctx' = Fail(ctx)
  /\ UNCHANGED <<required, document, events, origin, nested>>

ParserNext ==
  \/ ChannelStarts \/ ItemStarts \/ OtherStarts \/ EnclosureStarts
  \/ ElementEnds \/ TextComes \/ DocumentEnds \/ DocumentBreaks

-----------------------------------------------------------------------------
(* SelectionWeight and best_match. *)

Number(s) == FoldLeft(LAMBDA n, d : 10 * n + d, 0, s)

Minimum(item) == Number(item.text["minimumSystemVersion"])

(* For this build, or for any Windows, or for no host like this. *)
Rank(item) == CASE item.os = "specific" -> 2 [] item.os = "" -> 1 [] OTHER -> 0

(* The rank in the two highest bits, the system's major version, of which 12 *)
(* bits are kept, below. *)
MinimumFirst(item) ==
  IF Rank(item) = 0 \/ Minimum(item) > System THEN 0
  ELSE 4 * (Minimum(item) % MajorRange) + Rank(item)

SelectionWeight(item) ==
  IF Rank(item) = 0 \/ Minimum(item) > System THEN 0
  ELSE MajorRange * Rank(item) + (Minimum(item) % MajorRange)

(* The first of the heaviest; 0 if there is none. *)
BestMatch(items) ==
  LET heaviest == SelectInSeq(items, LAMBDA i :
                    \A j \in DOMAIN items : SelectionWeight(items[j]) <= SelectionWeight(i))
  IN IF heaviest = 0 THEN 0
     ELSE IF SelectionWeight(items[heaviest]) = 0 THEN 0 ELSE heaviest

-----------------------------------------------------------------------------
(* Properties. *)

(* Every item that is loaded stands in a channel that was asked for, or in   *)
(* none, keeps the label of its channel, and all come from the first such    *)
(* channel.  AutoManifest.cpp:163-169, 430-487, 541-546, 710-714.            *)
ChannelHonoured ==
  \A i \in DOMAIN origin :
    /\ \/ origin[i] = Nowhere
       \/ origin[i].name = required
       \/ {origin[i].name, required} \subseteq {"", "release"}
    /\ origin[i].name # "" => ctx.items[i].build = origin[i].name
    /\ \A j \in DOMAIN origin : origin[i].at = origin[j].at

(* A text is given to the open item, and to a field that is open in it and   *)
(* not through its tags.  AutoManifest.cpp:720-779.                          *)
TextIsOwn ==
  [][\A i \in DOMAIN ctx.items, f \in Field :
       i \in DOMAIN ctx'.items /\ ctx'.items[i].text[f] # ctx.items[i].text[f] =>
         /\ i = Len(ctx.items) /\ Open("item") /\ LastOpen(f) > LastOpen("item")
         /\ nested \/ LastOpen("tags") < LastOpen("item")]_parser
=============================================================================
