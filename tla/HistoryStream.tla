---------------------------- MODULE HistoryStream ----------------------------
(***************************************************************************)
(* The history agent's answer while it arrives: the push-down reader of    *)
(* crates/review-agent/src/history_stream.rs that picks the text of three  *)
(* fields out of a JSON document character by character, and the draft     *)
(* app/src/lib/historyStream.ts makes of it.                               *)
(*                                                                         *)
(* A character is a string: a structural one is itself, "quote" and        *)
(* "slash" are " and \, four hexadecimal digits are one of "bmp", "high"   *)
(* and "low" (a surrogate), "ctl" is a control character, and the letters  *)
(* of a name or of a text are one character.                               *)
(***************************************************************************)
EXTENDS Integers, Sequences, FiniteSets, SequencesExt

-----------------------------------------------------------------------------
(* JsonStringState *)

Continue(escape, decoded) == [action |-> "Continue", escape |-> escape, decoded |-> decoded]
StringEnds(action) == [action |-> action, escape |-> "Normal", decoded |-> ""]
Unescaped(c) == IF c = "n" THEN "newline" ELSE c
consume(escape, c) ==
  CASE escape = "Normal" /\ c = "quote"           -> StringEnds("Complete")
    [] escape = "Normal" /\ c = "slash"           -> Continue("AfterSlash", "")
    [] escape = "Normal" /\ c = "ctl"             -> StringEnds("Failed")
    [] escape = "Normal" /\ c \notin {"quote", "slash", "ctl"} -> Continue("Normal", c)
    [] escape = "AfterSlash" /\ c \in {"quote", "slash", "n"} -> Continue("Normal", Unescaped(c))
    [] escape = "AfterSlash" /\ c = "u"           -> Continue("Unicode", "")
    [] escape = "Unicode" /\ c = "bmp"            -> Continue("Normal", "bmp")
    [] escape = "Unicode" /\ c = "high"           -> Continue("ExpectLowSlash", "")
    [] escape = "ExpectLowSlash" /\ c = "slash"   -> Continue("ExpectLowU", "")
    [] escape = "ExpectLowU" /\ c = "u"           -> Continue("LowUnicode", "")
    [] escape = "LowUnicode" /\ c = "low"         -> Continue("Normal", "pair")
    [] OTHER                                      -> StringEnds("Failed")

-----------------------------------------------------------------------------
(* HistoryArtifactStream *)

NoIndex == -1
NoTarget == <<"none", NoIndex>>
Frame(kind, role, item) ==
  [kind |-> kind, role |-> role, item |-> item, state |-> IF kind = "object" THEN "KeyOrEnd" ELSE "ValueOrEnd",
   key |-> <<>>, duplicate |-> FALSE, seen |-> {}]
NoString == [on |-> FALSE, is_key |-> FALSE, target |-> NoTarget, value |-> <<>>, escape |-> "Normal"]
NewStream == [frames |-> <<>>, string |-> NoString, primitive |-> FALSE,
              root_started |-> FALSE, root_complete |-> FALSE, failed |-> FALSE]

Top(s) == Last(s.frames)
SetTop(s, frame) == [s EXCEPT !.frames = Append(Front(@), frame)]
Failed(s) == [s EXCEPT !.failed = TRUE]

\* mark_container_value_started, mark_scalar_value_complete: a value may stand here.
TakesValue(s) == s.frames # <<>> /\ Top(s).state = IF Top(s).kind = "object" THEN "Value" ELSE "ValueOrEnd"
ValueTaken(s) == SetTop(s, [Top(s) EXCEPT !.state = "CommaOrEnd"])

artifact_target(frame) ==
  CASE frame.role = "root" /\ frame.key = <<"summary">>        -> <<"summary", NoIndex>>
    [] frame.role = "finding" /\ frame.key = <<"title">>       -> <<"finding_title", frame.item>>
    [] frame.role = "finding" /\ frame.key = <<"explanation">> -> <<"finding_explanation", frame.item>>
    [] OTHER -> NoTarget

Quiet(s) == [stream |-> s, event |-> "none", target |-> NoTarget, text |-> ""]
Says(s, event, target, text) == [stream |-> s, event |-> event, target |-> target, text |-> text]

\* A field that is written again starts afresh.
start_string(s) ==
  LET frame == Top(s)
      target == IF frame.kind = "object" THEN artifact_target(frame) ELSE NoTarget
  IN  CASE frame.kind = "object" /\ frame.state = "KeyOrEnd" ->
             Quiet([s EXCEPT !.string = [NoString EXCEPT !.on = TRUE, !.is_key = TRUE]])
        [] TakesValue(s) ->
             Says([s EXCEPT !.string = [NoString EXCEPT !.on = TRUE, !.target = target]],
                  IF target # NoTarget /\ frame.duplicate THEN "reset" ELSE "none", target, "")
        [] OTHER -> Quiet(Failed(s))

complete_string(s, string) ==
  IF string.is_key
  THEN SetTop(s, [Top(s) EXCEPT !.state = "Colon", !.key = string.value,
                                !.duplicate = string.value \in Top(s).seen, !.seen = @ \cup {string.value}])
  ELSE ValueTaken(s)

accept_colon(s) ==
  IF Top(s).kind = "object" /\ Top(s).state = "Colon" THEN SetTop(s, [Top(s) EXCEPT !.state = "Value"]) ELSE Failed(s)
\* An array that had a comma is at its next item.
accept_comma(s) ==
  IF Top(s).state # "CommaOrEnd" THEN Failed(s)
  ELSE SetTop(s, IF Top(s).kind = "object" THEN [Top(s) EXCEPT !.state = "KeyOrEnd"]
                 ELSE [Top(s) EXCEPT !.state = "ValueOrEnd", !.item = @ + 1])

Opened(s, frame) == IF TakesValue(s) THEN [ValueTaken(s) EXCEPT !.frames = Append(@, frame)] ELSE Failed(s)
\* Mutant: every object in an array is taken for a finding.
StartAnyFinding(s) == Opened(s, Frame("object", IF Top(s).kind = "array" THEN "finding" ELSE "other", Top(s).item))
start_object(s) == Opened(s, Frame("object", IF Top(s).role = "findings" THEN "finding" ELSE "other", Top(s).item))
start_array(s) ==
  Opened(s, Frame("array", IF Top(s).role = "root" /\ Top(s).key = <<"findings">> THEN "findings" ELSE "other", 0))
close(s, kind) ==
  IF Top(s).kind = kind /\ Top(s).state \in {"KeyOrEnd", "ValueOrEnd", "CommaOrEnd"}
  THEN [s EXCEPT !.frames = Front(@), !.root_complete = Len(s.frames) = 1]
  ELSE Failed(s)

handle_structural(s, c) ==
  CASE ~s.root_started -> Quiet(IF c = "{" THEN [s EXCEPT !.root_started = TRUE, !.frames = <<Frame("object", "root", 0)>>]
                                ELSE s)
    [] s.root_started /\ c = "ws"    -> Quiet(s)
    [] s.root_started /\ c = "quote" -> start_string(s)
    [] s.root_started /\ c = ":"     -> Quiet(accept_colon(s))
    [] s.root_started /\ c = ","     -> Quiet(accept_comma(s))
    [] s.root_started /\ c = "{"     -> Quiet(start_object(s))
    [] s.root_started /\ c = "}"     -> Quiet(close(s, "object"))
    [] s.root_started /\ c = "["     -> Quiet(start_array(s))
    [] s.root_started /\ c = "]"     -> Quiet(close(s, "array"))
    [] OTHER -> Quiet(IF TakesValue(s) THEN [ValueTaken(s) EXCEPT !.primitive = TRUE] ELSE Failed(s))

feed_string(s, c) ==
  LET r == consume(s.string.escape, c)
      next == [s EXCEPT !.string.escape = r.escape,
                        !.string.value = IF s.string.is_key /\ r.decoded # "" THEN Append(@, r.decoded) ELSE @]
      ended == [s EXCEPT !.string = NoString]
  IN  CASE r.action = "Complete" -> Quiet(complete_string(ended, s.string))
        [] r.action = "Failed"   -> Quiet(Failed(ended))
        [] OTHER -> IF r.decoded = "" \/ s.string.is_key \/ s.string.target = NoTarget THEN Quiet(next)
                    ELSE Says(next, "delta", s.string.target, r.decoded)
feed(s, c) ==
  CASE s.failed \/ s.root_complete -> Quiet(s)
    [] ~(s.failed \/ s.root_complete) /\ s.string.on -> feed_string(s, c)
    [] ~(s.failed \/ s.root_complete) /\ s.primitive ->
         IF c \in {",", "}", "]"} THEN handle_structural([s EXCEPT !.primitive = FALSE], c) ELSE Quiet(s)
    [] OTHER -> handle_structural(s, c)

-----------------------------------------------------------------------------
(* The draft: artifact events folded by reduceAgentEvent, read by            *)
(* historyDraftFromStream                                                    *)

NoParts == <<>>        \* a sequence of [target, text], in the order they appeared
PartAt(parts, target) == SelectInSeq(parts, LAMBDA part : part.target = target)
reduceArtifact(parts, said) ==
  LET i == PartAt(parts, said.target) IN
  CASE said.event = "delta" /\ i = 0 -> Append(parts, [target |-> said.target, text |-> <<said.text>>])
    [] said.event = "delta" /\ i # 0 -> [parts EXCEPT ![i].text = Append(@, said.text)]
    [] said.event = "reset" /\ i # 0 -> [parts EXCEPT ![i].text = <<>>]
    [] OTHER -> parts

TextOf(parts, target) == IF PartAt(parts, target) = 0 THEN <<>> ELSE parts[PartAt(parts, target)].text
\* Items nothing was said of are left out.
historyDraftFromStream(parts) ==
  LET items == SetToSortSeq({part.target[2] : part \in Range(parts)} \ {NoIndex}, <)
  IN  [summary |-> TextOf(parts, <<"summary", NoIndex>>),
       findings |-> [i \in DOMAIN items |-> [title |-> TextOf(parts, <<"finding_title", items[i]>>),
                                             explanation |-> TextOf(parts, <<"finding_explanation", items[i]>>)]]]

-----------------------------------------------------------------------------
(* The reference: documents as trees, what is written for them, and what    *)
(* serde_json and decode_investigation read                                  *)

Text(text) == [kind |-> "text", text |-> text, items |-> <<>>]
Scalar == [kind |-> "scalar", text |-> <<>>, items |-> <<>>]
Array(items) == [kind |-> "array", text |-> <<>>, items |-> items]
\* The items of an object are its members, a key may occur twice.
Object(members) == [kind |-> "object", text |-> <<>>, items |-> members]
Member(key, value) == [key |-> key, value |-> value]

Written(c) ==
  CASE c = "newline" -> <<"slash", "n">>
    [] c \in {"quote", "slash"} -> <<"slash", c>>
    [] c = "bmp"  -> <<"slash", "u", "bmp">>
    [] c = "pair" -> <<"slash", "u", "high", "slash", "u", "low">>
    [] OTHER -> <<c>>
WriteText(text) == <<"quote">> \o FlattenSeq([i \in DOMAIN text |-> Written(text[i])]) \o <<"quote">>
Joined(parts) == FlattenSeq([i \in DOMAIN parts |-> IF i = 1 THEN parts[i] ELSE <<",">> \o parts[i]])
RECURSIVE Write(_)
Write(v) ==
  CASE v.kind = "text"   -> WriteText(v.text)
    [] v.kind = "scalar" -> <<"1", "ws">>
    [] v.kind = "array"  -> <<"[">> \o Joined([i \in DOMAIN v.items |-> Write(v.items[i])]) \o <<"]">>
    [] v.kind = "object" ->
         <<"{">> \o Joined([i \in DOMAIN v.items |-> WriteText(<<v.items[i].key>>) \o <<":", "ws">>
                                                     \o Write(v.items[i].value)]) \o <<"}">>

\* The last member of a name counts.
Has(object, key) == \E i \in DOMAIN object.items : object.items[i].key = key
Get(object, key) == object.items[SelectLastInSeq(object.items, LAMBDA m : m.key = key)].value
HasText(v, key) == v.kind = "object" /\ Has(v, key) /\ Get(v, key).kind = "text"
\* A single finding may come without its array.
FindingsOf(root) ==
  CASE ~Has(root, "findings")                   -> <<>>
    [] Has(root, "findings") /\ Get(root, "findings").kind = "object" -> <<Get(root, "findings")>>
    [] OTHER                                    -> Get(root, "findings").items
decode_investigation(root) ==
  /\ HasText(root, "summary")
  /\ ~Has(root, "findings") \/ Get(root, "findings").kind \in {"array", "object"}
  /\ \A f \in Range(FindingsOf(root)) : HasText(f, "title") /\ HasText(f, "explanation")
Answer(root) ==
  [summary |-> Get(root, "summary").text,
   findings |-> [i \in DOMAIN FindingsOf(root) |->
                   [title |-> Get(FindingsOf(root)[i], "title").text,
                    explanation |-> Get(FindingsOf(root)[i], "explanation").text]]]
\* Findings given once, as an array.
FindingsOnce(root) ==
  /\ Cardinality({i \in DOMAIN root.items : root.items[i].key = "findings"}) <= 1
  /\ Has(root, "findings") => Get(root, "findings").kind = "array"
=============================================================================
