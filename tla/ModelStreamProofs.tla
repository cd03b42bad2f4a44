-------------------------- MODULE ModelStreamProofs --------------------------
(***************************************************************************)
(* Proofs about ModelStream for any adapter, any number of attempts and    *)
(* streams of any length: what was shown while an answer came in is the    *)
(* answer, calls are whole and never shown as text, and DeepSeek is not    *)
(* asked twice for an answer it had begun.                                 *)
(***************************************************************************)
EXTENDS ModelStream, SequenceTheorems, WellFoundedInduction, TLAPS

-----------------------------------------------------------------------------
(* The invariant *)

Piece == {"t", "n", "<", "d", "/"}
Call == [known : BOOLEAN, args : {"none", "part", "full"}]
Mode == {"LineStart", "Text", "Protocol"}
Stream == [started : BOOLEAN, content : Seq(Piece), mode : Mode, pending : Seq(Piece), calls : Seq(Call),
           finish : {"none", "stop", "length", "content_filter", "insufficient_system_resource", "refusal"}]
Status == {"starting", "streaming", "completed", "retrying", "failed"}
Shown == [status : Seq(Status), text : Seq(Piece), tools : SUBSET Nat]

Types ==
    /\ provider \in Provider /\ recovers \in BOOLEAN
    /\ stream \in Stream /\ shown \in Shown

(* A line of the text opens with piece number i.                             *)
OpensLine(text, i) == i = 1 \/ text[i - 1] = "n"

(* The first tag of the protocol is at piece b, and text is all before it,   *)
(* but for blank lines right before it.                                      *)
UpTo(content, b, text) ==
    /\ b \in ProtocolAt(content) /\ \A j \in ProtocolAt(content) : b <= j
    /\ Len(text) < b
    /\ \A i \in 1 .. b - 1 : IF i <= Len(text) THEN content[i] = text[i] ELSE content[i] = "n"

(* What DeepSeek's filter has let through: all but blank lines, perhaps with *)
(* an opening bracket, and, once the tool protocol has begun, all that came  *)
(* before it but for such lines.                                             *)
Filtered(s, text) ==
    /\ s.mode # "Protocol" => s.content = text \o s.pending /\ ProtocolAt(s.content) = {}
    /\ s.mode = "Protocol" => s.pending = <<>> /\ \E b \in Nat : UpTo(s.content, b, text)
    /\ s.mode = "LineStart" =>
         \/ Blank(s.pending) /\ OpensLine(s.content, Len(s.content) + 1)
         \/ /\ Opened(s.pending) /\ \A i \in 1 .. Len(s.pending) - 1 : s.pending[i] = "n"
            /\ s.content # <<>> /\ Last(s.content) = "<" /\ OpensLine(s.content, Len(s.content))
    /\ s.mode = "Text" =>
         /\ s.pending = <<>> /\ ~OpensLine(s.content, Len(s.content) + 1)
         /\ Last(s.content) = "<" => ~OpensLine(s.content, Len(s.content))

(* The user sees the calls the request knows, and the text as it came in.    *)
Known(s) == {i \in DOMAIN s.calls : s.calls[i].known}
Faithful(s, seen) ==
    /\ seen.tools = Known(s)
    /\ provider = "deepseek" => Filtered(s, seen.text)
    /\ provider # "deepseek" => s.pending = <<>> /\ seen.text = s.content

Streams ==
    /\ pc = "send" => ~stream.started
    /\ pc \in {"send", "stream"} => shown.status # <<>> /\ Faithful(stream, shown)
Unanswered == pc # "end" => result.kind = "none"

StreamInv == Types /\ Streams /\ Unanswered /\ DraftIsAnswer /\ CallsAreWhole

-----------------------------------------------------------------------------
(* Text, piece by piece *)

LEMMA PieceAdded ==
    ASSUME NEW text \in Seq(Piece), NEW piece \in Piece
    PROVE  LET more == Append(text, piece)
           IN  /\ more \in Seq(Piece) /\ Len(more) = Len(text) + 1 /\ Len(text) \in Nat
               /\ DOMAIN more = 1 .. Len(text) + 1 /\ DOMAIN text = 1 .. Len(text)
               /\ \A i \in 1 .. Len(text) : more[i] = text[i]
               /\ more[Len(text) + 1] = piece /\ Last(more) = piece /\ more # <<>>
<1> DEFINE more == Append(text, piece)
<1>1. DOMAIN text = 1 .. Len(text) /\ Len(text) \in Nat
  BY LenProperties
<1>2. /\ more \in Seq(Piece) /\ Len(more) = Len(text) + 1
      /\ \A i \in 1 .. Len(text) : more[i] = text[i]
      /\ more[Len(text) + 1] = piece
  BY AppendProperties
<1> HIDE DEF more
<1>3. DOMAIN more = 1 .. Len(text) + 1
  BY <1>2, LenProperties
<1>4. more # <<>>
  BY <1>1, <1>2, EmptySeq
<1> QED BY <1>1, <1>2, <1>3, <1>4 DEF more, Last

(* A tag starts where its bracket opens a line, once its next piece is there.*)
LEMMA TagAdded ==
    ASSUME NEW text \in Seq(Piece), NEW piece \in Piece
    PROVE  LET n == Len(text)
               opens == text # <<>> /\ Last(text) = "<" /\ piece = "d" /\ OpensLine(text, n)
           IN  /\ opens => ProtocolAt(Append(text, piece)) = ProtocolAt(text) \cup {n}
               /\ ~opens => ProtocolAt(Append(text, piece)) = ProtocolAt(text)
<1> DEFINE n == Len(text)
           opens == text # <<>> /\ Last(text) = "<" /\ piece = "d" /\ OpensLine(text, n)
           more == Append(text, piece)
<1>1. /\ more \in Seq(Piece) /\ Len(more) = n + 1 /\ n \in Nat
      /\ DOMAIN more = 1 .. n + 1 /\ DOMAIN text = 1 .. n
      /\ \A i \in 1 .. n : more[i] = text[i]
      /\ more[n + 1] = piece
  BY PieceAdded
<1>2. text # <<>> <=> n # 0
  BY <1>1, EmptySeq
<1> HIDE DEF n, more
<1>3. ASSUME NEW i \in Nat, i < n
      PROVE  i \in ProtocolAt(more) <=> i \in ProtocolAt(text)
  <2>1. CASE i = 0
    BY <1>1, <2>1 DEF ProtocolAt
  <2>2. CASE i # 0
    <3>1. i \in 1 .. n /\ i + 1 \in 1 .. n /\ i < n + 1 /\ i \in 1 .. n + 1
      BY <1>1, <1>3, <2>2
    <3>2. more[i] = text[i] /\ more[i + 1] = text[i + 1]
      BY <1>1, <3>1
    <3>3. i # 1 => more[i - 1] = text[i - 1]
      BY <1>1, <1>3, <2>2
    <3> QED BY <1>1, <1>3, <3>1, <3>2, <3>3 DEF ProtocolAt, n
  <2> QED BY <2>1, <2>2
<1>4. n \in ProtocolAt(more) <=> opens
  <2>1. CASE n = 0
    BY <1>1, <1>2, <2>1 DEF ProtocolAt
  <2>2. CASE n # 0
    <3>1. n \in 1 .. n + 1 /\ n < n + 1 /\ more[n] = text[n] /\ text # <<>>
      BY <1>1, <1>2, <2>2
    <3>2. n # 1 => more[n - 1] = text[n - 1]
      BY <1>1, <2>2
    <3>3. Last(text) = text[n]
      BY DEF Last, n
    <3> QED BY <1>1, <3>1, <3>2, <3>3 DEF ProtocolAt, OpensLine
  <2> QED BY <2>1, <2>2
<1>5. \A i \in ProtocolAt(more) : i \in Nat /\ i <= n
  BY <1>1 DEF ProtocolAt
<1>6. \A i \in ProtocolAt(text) : i \in Nat /\ i < n
  BY <1>1 DEF ProtocolAt, n
<1> HIDE DEF opens
<1>7. \A i \in ProtocolAt(more) : i \in ProtocolAt(text) \/ (i = n /\ opens)
  BY <1>1, <1>3, <1>4, <1>5
<1>8. ProtocolAt(text) \subseteq ProtocolAt(more)
  BY <1>3, <1>6
<1>9. /\ opens => ProtocolAt(more) = ProtocolAt(text) \cup {n}
      /\ ~opens => ProtocolAt(more) = ProtocolAt(text)
  BY <1>4, <1>7, <1>8
<1> QED BY <1>9 DEF opens, n, more

LEMMA AppendToConcat ==
    ASSUME NEW a \in Seq(Piece), NEW b \in Seq(Piece), NEW piece \in Piece
    PROVE  Append(a \o b, piece) = a \o Append(b, piece)
<1>1. a \o b \in Seq(Piece) /\ <<piece>> \in Seq(Piece)
  BY ConcatProperties
<1>2. Append(a \o b, piece) = (a \o b) \o <<piece>> /\ Append(b, piece) = b \o <<piece>>
  BY <1>1, AppendIsConcat
<1> QED BY <1>1, <1>2, ConcatAssociative

(* The filter lets a piece through, holds it back or drops it.               *)
LEMMA PushSound ==
    ASSUME NEW s \in Stream, NEW text \in Seq(Piece), Filtered(s, text), NEW piece \in Piece,
           piece = "d" => s.content # <<>> /\ Last(s.content) = "<",
           s.content # <<>> /\ Last(s.content) = "<" => piece # "<",
           NEW t, t.content = Append(s.content, piece),
           t.mode = push(s, piece).mode, t.pending = push(s, piece).pending
    PROVE  LET f == push(s, piece)
           IN  /\ f.out \in Seq(Piece) /\ f.mode \in Mode /\ f.pending \in Seq(Piece)
               /\ Filtered(t, text \o f.out)
<1> DEFINE f == push(s, piece)
           n == Len(s.content)
           content == s.content
           after == IF piece = "n" THEN "LineStart" ELSE "Text"
<1>1. content \in Seq(Piece) /\ s.pending \in Seq(Piece) /\ s.mode \in {"LineStart", "Text", "Protocol"}
  BY DEF Stream, Mode
<1>2. /\ t.content \in Seq(Piece) /\ Len(t.content) = n + 1 /\ n \in Nat
      /\ DOMAIN t.content = 1 .. n + 1 /\ DOMAIN content = 1 .. n
      /\ \A i \in 1 .. n : t.content[i] = content[i]
      /\ t.content[n + 1] = piece /\ Last(t.content) = piece /\ t.content # <<>>
  BY <1>1, PieceAdded
<1>3. /\ <<>> \in Seq(Piece) /\ <<piece>> \in Seq(Piece) /\ <<"<">> \in Seq(Piece) /\ text \o <<>> = text
      /\ Len(text) \in Nat /\ DOMAIN text = 1 .. Len(text)
  BY ConcatEmptySeq, LenProperties DEF Piece
<1>4. content # <<>> <=> n # 0
  BY <1>1, <1>2, EmptySeq
<1>5. Last(content) = content[n]
  BY DEF Last
<1>6. {"LineStart", "Text", "Protocol"} = Mode
  BY DEF Mode
<1>7. OpensLine(t.content, Len(t.content) + 1) <=> piece = "n"
  BY <1>2 DEF OpensLine
<1>8. n # 0 => (OpensLine(t.content, Len(t.content)) <=> OpensLine(content, n + 1))
  BY <1>2 DEF OpensLine
<1> DEFINE opens == content # <<>> /\ Last(content) = "<" /\ piece = "d" /\ OpensLine(content, n)
<1>9. /\ opens => ProtocolAt(t.content) = ProtocolAt(content) \cup {n}
      /\ ~opens => ProtocolAt(t.content) = ProtocolAt(content)
  BY <1>1, TagAdded
<1> HIDE DEF n, content
<1>10. CASE s.mode = "Protocol"
  <2>1. f = [out |-> <<>>, pending |-> <<>>, mode |-> "Protocol"]
    BY <1>10 DEF push
  <2>2. f.out = <<>> /\ t.pending = <<>> /\ f.pending = <<>> /\ f.mode = "Protocol" /\ t.mode = "Protocol"
    BY <2>1
  <2>3. PICK b \in Nat : UpTo(content, b, text)
    BY <1>10 DEF Filtered, content
  <2>4. b \in ProtocolAt(content) /\ b < n
    BY <2>3 DEF UpTo, ProtocolAt, n, content
  <2>5. b \in ProtocolAt(t.content) /\ \A j \in ProtocolAt(t.content) : b <= j
    BY <1>2, <1>9, <2>3, <2>4 DEF UpTo
  <2>6. \A i \in 1 .. b - 1 : t.content[i] = content[i]
    BY <1>2, <2>4
  <2>7. UpTo(t.content, b, text)
    BY <2>3, <2>5, <2>6 DEF UpTo
  <2>8. Filtered(t, text)
    BY <2>2, <2>7 DEF Filtered
  <2> QED BY <1>3, <1>6, <2>2, <2>8
<1>11. ASSUME s.mode # "Protocol", f.out = Append(s.pending, piece), f.pending = <<>>, f.mode = after,
              ~opens, piece # "<" \/ (n # 0 /\ ~OpensLine(content, n + 1))
       PROVE  f.out \in Seq(Piece) /\ f.mode \in Mode /\ f.pending \in Seq(Piece) /\ Filtered(t, text \o f.out)
  <2>1. content = text \o s.pending /\ ProtocolAt(content) = {}
    BY <1>11 DEF Filtered, content
  <2>2. t.content = text \o f.out
    BY <1>1, <1>11, <2>1, AppendToConcat DEF content
  <2>3. (text \o f.out) \o <<>> = text \o f.out /\ f.out \in Seq(Piece)
    <3>1. f.out \in Seq(Piece)
      BY <1>1, <1>11, AppendProperties
    <3> QED BY <3>1, ConcatProperties, ConcatEmptySeq
  <2>4. ProtocolAt(t.content) = {}
    BY <1>9, <1>11, <2>1
  <2>5. t.pending = <<>> /\ t.mode = after
    BY <1>11
  <2>6. (after = "LineStart" <=> piece = "n") /\ after \in {"LineStart", "Text"}
    OBVIOUS
  <2> HIDE DEF f
  <2>7. t.mode = "Text" => /\ ~OpensLine(t.content, Len(t.content) + 1)
                           /\ Last(t.content) = "<" => ~OpensLine(t.content, Len(t.content))
    BY <1>2, <1>7, <1>8, <1>11, <2>5, <2>6
  <2>8. t.mode = "LineStart" => Blank(t.pending) /\ OpensLine(t.content, Len(t.content) + 1)
    <3>1. Blank(<<>>)
      BY DEF Blank
    <3> QED BY <1>7, <2>5, <2>6, <3>1
  <2> HIDE DEF after
  <2>9. Filtered(t, text \o f.out)
    BY <2>2, <2>3, <2>4, <2>5, <2>6, <2>7, <2>8 DEF Filtered
  <2> QED BY <1>3, <1>6, <1>11, <2>3, <2>6, <2>9
<1>12. CASE s.mode = "Text"
  <2>1. f = [out |-> <<piece>>, pending |-> <<>>, mode |-> after]
    BY <1>12 DEF push
  <2>2. s.pending = <<>> /\ ~OpensLine(content, n + 1) /\ (Last(content) = "<" => ~OpensLine(content, n))
    BY <1>12 DEF Filtered, n, content
  <2>3. f.out = Append(s.pending, piece) /\ f.pending = <<>> /\ f.mode = after
    BY <2>1, <2>2
  <2>4. n # 0 /\ ~opens
    BY <1>2, <2>2 DEF OpensLine
  <2> QED BY <1>11, <1>12, <2>2, <2>3, <2>4
<1> DEFINE all == Append(s.pending, piece)
<1>13. /\ all \in Seq(Piece) /\ Len(all) = Len(s.pending) + 1 /\ Len(s.pending) \in Nat
       /\ DOMAIN all = 1 .. Len(s.pending) + 1 /\ DOMAIN s.pending = 1 .. Len(s.pending)
       /\ \A i \in 1 .. Len(s.pending) : all[i] = s.pending[i]
       /\ all[Len(s.pending) + 1] = piece /\ Last(all) = piece /\ all # <<>>
  BY <1>1, PieceAdded
<1>14. s.mode = "LineStart" => content = text \o s.pending /\ ProtocolAt(content) = {}
  BY DEF Filtered, content
<1>15. ASSUME s.mode = "LineStart", piece # "d"
       PROVE  t.content = text \o all /\ ProtocolAt(t.content) = {}
  BY <1>1, <1>9, <1>14, <1>15, AppendToConcat DEF content
<1>16. ASSUME s.mode = "LineStart", piece \notin {"<", "d"}, piece = "n" => Opened(s.pending)
       PROVE  f.out \in Seq(Piece) /\ f.mode \in Mode /\ f.pending \in Seq(Piece) /\ Filtered(t, text \o f.out)
  <2>1. f = [out |-> all, pending |-> <<>>, mode |-> after]
    BY <1>16 DEF push
  <2>2. f.out = all /\ f.pending = <<>> /\ f.mode = after
    BY <2>1
  <2> QED BY <1>11, <1>16, <2>2
<1>17. ASSUME s.mode = "LineStart", f = [out |-> <<>>, pending |-> all, mode |-> "LineStart"], piece # "d",
              \/ Blank(all) /\ piece = "n"
              \/ /\ piece = "<" /\ OpensLine(content, n + 1)
                 /\ \A i \in 1 .. Len(all) - 1 : all[i] = "n"
       PROVE  f.out \in Seq(Piece) /\ f.mode \in Mode /\ f.pending \in Seq(Piece) /\ Filtered(t, text \o f.out)
  <2>1. f.out = <<>> /\ f.pending = all /\ f.mode = "LineStart"
    BY <1>17
  <2>2. t.pending = all /\ t.mode = "LineStart"
    BY <2>1
  <2> HIDE DEF all, f
  <2>3. t.content = text \o t.pending /\ ProtocolAt(t.content) = {}
    BY <1>15, <1>17, <2>2
  <2>4. \/ Blank(t.pending) /\ OpensLine(t.content, Len(t.content) + 1)
        \/ /\ Opened(t.pending) /\ \A i \in 1 .. Len(t.pending) - 1 : t.pending[i] = "n"
           /\ t.content # <<>> /\ Last(t.content) = "<" /\ OpensLine(t.content, Len(t.content))
    <3>1. CASE piece = "n"
      BY <1>7, <1>17, <2>2, <3>1
    <3>2. CASE piece = "<"
      <4>1. Opened(all)
        BY <1>13, <3>2 DEF Opened
      <4>2. OpensLine(t.content, Len(t.content))
        <5>1. n = 0 => Len(t.content) = 1
          BY <1>2
        <5> QED BY <1>8, <1>17, <3>2, <5>1 DEF OpensLine
      <4> QED BY <1>2, <1>17, <2>2, <3>2, <4>1, <4>2
    <3> QED BY <1>17, <3>1, <3>2
  <2>5. Filtered(t, text)
    BY <2>2, <2>3, <2>4 DEF Filtered
  <2> QED BY <1>3, <1>6, <1>13, <2>1, <2>5
<1>18. CASE s.mode = "LineStart" /\ Blank(s.pending) /\ OpensLine(content, n + 1)
  <2>1. ~Opened(s.pending)
    <3>1. ASSUME s.pending # <<>> PROVE Last(s.pending) = "n"
      <4>1. Len(s.pending) # 0
        BY <1>1, <3>1, EmptySeq
      <4> QED BY <1>13, <1>18, <4>1 DEF Blank, Last
    <3> QED BY <3>1 DEF Opened
  <2>2. piece # "d"
    BY <1>2, <1>4, <1>5, <1>18 DEF OpensLine, content
  <2>3. \A i \in 1 .. Len(all) - 1 : all[i] = "n"
    <3> HIDE DEF all
    <3>1. \A i \in 1 .. Len(all) - 1 : i \in DOMAIN s.pending /\ all[i] = s.pending[i]
      BY <1>13
    <3> QED BY <1>18, <3>1 DEF Blank
  <2>4. CASE piece = "<"
    <3>1. f = [out |-> <<>>, pending |-> all, mode |-> "LineStart"]
      BY <1>18, <2>4 DEF push
    <3> QED BY <1>17, <1>18, <2>2, <2>3, <2>4, <3>1
  <2>5. CASE piece = "n"
    <3>1. f = [out |-> <<>>, pending |-> all, mode |-> "LineStart"]
      BY <1>18, <2>1, <2>5 DEF push
    <3>2. Blank(all)
      BY <1>13, <2>3, <2>5 DEF Blank
    <3> QED BY <1>17, <1>18, <2>2, <2>5, <3>1, <3>2
  <2>6. CASE piece \notin {"<", "n"}
    BY <1>16, <1>18, <2>2, <2>6
  <2> QED BY <2>4, <2>5, <2>6
<1>19. CASE /\ s.mode = "LineStart" /\ Opened(s.pending)
            /\ \A i \in 1 .. Len(s.pending) - 1 : s.pending[i] = "n"
            /\ content # <<>> /\ Last(content) = "<" /\ OpensLine(content, n)
  <2>1. piece # "<"
    BY <1>19 DEF content
  <2>2. CASE piece # "d"
    BY <1>16, <1>19, <2>1, <2>2
  <2>3. CASE piece = "d"
    <3>1. f = [out |-> <<>>, pending |-> <<>>, mode |-> "Protocol"]
      BY <1>19, <2>3 DEF push
    <3>2. f.out = <<>> /\ f.pending = <<>> /\ f.mode = "Protocol" /\ t.mode = "Protocol" /\ t.pending = <<>>
      BY <3>1
    <3> HIDE DEF f
    <3>3. ProtocolAt(t.content) = {n} /\ n # 0
      <4>1. n # 0 /\ opens
        BY <1>4, <1>19, <2>3
      <4> HIDE DEF opens
      <4>2. ProtocolAt(t.content) = ProtocolAt(content) \cup {n} /\ ProtocolAt(content) = {}
        BY <1>9, <1>14, <1>19, <4>1
      <4> QED BY <4>1, <4>2
    <3>4. n = Len(text) + Len(s.pending)
      <4>1. Len(text \o s.pending) = Len(text) + Len(s.pending)
        BY <1>1, ConcatProperties
      <4>2. content = text \o s.pending
        BY <1>14, <1>19
      <4> QED BY <4>1, <4>2 DEF n, content
    <3>5. Len(s.pending) # 0
      BY <1>1, <1>19, EmptySeq DEF Opened
    <3>6. ASSUME NEW i \in 1 .. n - 1
          PROVE  IF i <= Len(text) THEN t.content[i] = text[i] ELSE t.content[i] = "n"
      <4>1. i \in 1 .. n /\ i \in 1 .. Len(text) + Len(s.pending)
        BY <1>2, <3>4, <3>6
      <4>2. t.content[i] = content[i]
        BY <1>2, <4>1
      <4>3. content[i] = IF i <= Len(text) THEN text[i] ELSE s.pending[i - Len(text)]
        BY <1>1, <1>14, <1>19, <4>1, ConcatProperties
      <4>4. CASE i <= Len(text)
        BY <4>2, <4>3, <4>4
      <4>5. CASE ~(i <= Len(text))
        <5>1. i - Len(text) \in 1 .. Len(s.pending) - 1
          BY <1>3, <1>13, <3>4, <3>6, <4>5
        <5> QED BY <1>19, <4>2, <4>3, <4>5, <5>1
      <4> QED BY <4>4, <4>5
    <3>7. Len(text) < n
      BY <1>3, <1>13, <3>4, <3>5
    <3>8. n \in ProtocolAt(t.content) /\ \A j \in ProtocolAt(t.content) : n <= j
      BY <1>2, <3>3
    <3>9. UpTo(t.content, n, text)
      <4> DEFINE more == t.content
      <4>1. \A i \in 1 .. n - 1 : IF i <= Len(text) THEN more[i] = text[i] ELSE more[i] = "n"
        BY <3>6
      <4> HIDE DEF more
      <4>2. n \in ProtocolAt(more) /\ \A j \in ProtocolAt(more) : n <= j
        BY <3>8 DEF more
      <4>3. UpTo(more, n, text)
        BY <3>7, <4>1, <4>2 DEF UpTo
      <4> QED BY <4>3 DEF more
    <3>10. Filtered(t, text)
      BY <1>2, <3>2, <3>9 DEF Filtered
    <3> QED BY <1>3, <1>6, <3>2, <3>10 DEF f
  <2> QED BY <2>2, <2>3
<1>20. s.mode = "LineStart" =>
         \/ Blank(s.pending) /\ OpensLine(content, n + 1)
         \/ /\ Opened(s.pending) /\ \A i \in 1 .. Len(s.pending) - 1 : s.pending[i] = "n"
            /\ content # <<>> /\ Last(content) = "<" /\ OpensLine(content, n)
  BY DEF Filtered, n, content
<1> QED BY <1>1, <1>10, <1>12, <1>18, <1>19, <1>20

(* An answer without protocol is all that was let through and held back.     *)
LEMMA TextIsAll ==
    ASSUME NEW s \in Stream, NEW text \in Seq(Piece), Filtered(s, text),
           parse_dsml_tool_calls(s.content) = "text"
    PROVE  text \o finish(s) = s.content
<1>1. ~looks_like_dsml_protocol(s.content)
  BY DEF parse_dsml_tool_calls
<1>2. \A i \in ProtocolAt(s.content) :
        i \in 1 .. Len(s.content) - 1 /\ s.content[i] = "<" /\ s.content[i + 1] = "d"
  <2>1. DOMAIN s.content = 1 .. Len(s.content) /\ Len(s.content) \in Nat
    BY LenProperties DEF Stream
  <2> QED BY <2>1 DEF ProtocolAt
<1>3. ProtocolAt(s.content) = {}
  BY <1>1, <1>2 DEF looks_like_dsml_protocol
<1>4. s.mode # "Protocol"
  BY <1>3 DEF Filtered, UpTo
<1> QED BY <1>4 DEF Filtered, finish

(* A non-empty set of naturals has a least element.                         *)
LEMMA LeastNatural ==
    ASSUME NEW T \in SUBSET Nat, T # {}
    PROVE  \E x \in T : \A y \in T : x <= y
<1> DEFINE R == OpToRel(<, Nat)
<1>1. IsWellFoundedOn(R, Nat)
  BY NatLessThanWellFounded
<1>2. \E x \in T : \A y \in T : ~(<<y, x>> \in R)
  <2> HIDE DEF R
  <2> QED BY <1>1, WFMin
<1>3. \A x, y \in T : ~(<<y, x>> \in R) => x <= y
  BY DEF OpToRel
<1> QED BY <1>2, <1>3

(* Calls in the text end it, and follow what was shown of it.                *)
LEMMA CallsFollowText ==
    ASSUME NEW s \in Stream, NEW text \in Seq(Piece), Filtered(s, text),
           parse_dsml_tool_calls(s.content) = "calls"
    PROVE  /\ \E end \in DOMAIN s.content :
                 s.content[end] = "/" /\ \A i \in end + 1 .. Len(s.content) : s.content[i] = "n"
           /\ \E first \in ProtocolAt(s.content) :
                 /\ \A i \in ProtocolAt(s.content) : first <= i
                 /\ Len(text) < first
                 /\ \A i \in 1 .. first - 1 :
                       IF i <= Len(text) THEN s.content[i] = text[i] ELSE s.content[i] = "n"
<1> DEFINE content == s.content
           tags == dsml_protocol_suffix(content)
           least == CHOOSE i \in tags : \A j \in tags : i <= j
<1>1. content \in Seq(Piece) /\ DOMAIN content = 1 .. Len(content) /\ Len(content) \in Nat
  BY LenProperties DEF Stream
<1>2. tags # {} /\ Block(content, least)
  BY DEF parse_dsml_tool_calls
<1>3. tags \subseteq ProtocolAt(content) /\ ProtocolAt(content) \subseteq 1 .. Len(content)
  BY <1>1 DEF dsml_protocol_suffix, ProtocolAt
<1> HIDE DEF tags, content
<1>4. \E i \in tags : \A j \in tags : i <= j
  <2>1. tags \in SUBSET Nat
    BY <1>1, <1>3
  <2> QED BY <1>2, <2>1, LeastNatural
<1>5. least \in tags
  BY <1>4
<1>6. least \in 1 .. Len(content)
  BY <1>3, <1>5
<1> HIDE DEF least
<1>7. /\ least + 2 \in DOMAIN content /\ content[least + 2] = "/"
      /\ \A i \in least + 2 + 1 .. Len(content) : content[i] = "n"
  BY <1>1, <1>2, <1>6 DEF Block
<1>8. s.mode = "Protocol"
  BY <1>2, <1>3 DEF Filtered, Stream, Mode, content
<1>9. PICK b \in Nat : UpTo(content, b, text)
  BY <1>8 DEF Filtered, content
<1>10. /\ b \in ProtocolAt(content) /\ \A j \in ProtocolAt(content) : b <= j
       /\ Len(text) < b
       /\ \A i \in 1 .. b - 1 : IF i <= Len(text) THEN content[i] = text[i] ELSE content[i] = "n"
  BY <1>9 DEF UpTo
<1> QED BY <1>7, <1>10 DEF content

-----------------------------------------------------------------------------
(* What is shown *)

LEMMA StatusSet ==
    ASSUME NEW s \in Shown, s.status # <<>>, NEW status \in Status
    PROVE  LET t == SetStatus(s, status)
           IN  /\ t \in Shown /\ t.text = s.text /\ t.tools = s.tools
               /\ t.status # <<>> /\ Last(t.status) = status
<1> DEFINE n == Len(s.status)
           more == [s.status EXCEPT ![n] = status]
<1>1. s.status \in Seq(Status) /\ n \in Nat \ {0}
  BY EmptySeq DEF Shown
<1>2. more \in Seq(Status) /\ Len(more) = n /\ more[n] = status
  BY <1>1, ExceptSeq
<1>3. SetStatus(s, status) = [s EXCEPT !.status = more]
  BY DEF SetStatus, Shown
<1> HIDE DEF n, more
<1>4. more # <<>>
  BY <1>1, <1>2, EmptySeq
<1>5. LET t == [s EXCEPT !.status = more]
      IN  t \in Shown /\ t.text = s.text /\ t.tools = s.tools /\ t.status = more
  BY <1>2 DEF Shown
<1> QED BY <1>2, <1>3, <1>4, <1>5 DEF Last

LEMMA AttemptShown ==
    ASSUME NEW s \in Shown
    PROVE  LET t == reduceAgentEvent(s, Event("model_attempt_started"))
           IN  t \in Shown /\ t.text = <<>> /\ t.tools = {} /\ t.status # <<>>
<1> DEFINE more == Append(s.status, "starting")
<1>1. s.status \in Seq(Status) /\ "starting" \in Status
  BY DEF Shown, Status
<1>2. more \in Seq(Status) /\ Len(more) = Len(s.status) + 1 /\ Len(s.status) \in Nat
  BY <1>1, AppendProperties, LenProperties
<1>3. reduceAgentEvent(s, Event("model_attempt_started")) = [NothingShown EXCEPT !.status = more]
  BY DEF reduceAgentEvent, Event
<1> HIDE DEF more
<1>4. more # <<>>
  BY <1>2, EmptySeq
<1>5. <<>> \in Seq(Piece) /\ {} \in SUBSET Nat
  OBVIOUS
<1>6. [NothingShown EXCEPT !.status = more] = [status |-> more, text |-> <<>>, tools |-> {}]
  BY DEF NothingShown
<1> QED BY <1>2, <1>3, <1>4, <1>5, <1>6 DEF Shown

LEMMA TextShown ==
    ASSUME NEW s \in Shown, s.status # <<>>, NEW delta \in Seq(Piece)
    PROVE  LET t == EmitText(s, delta)
           IN  t \in Shown /\ t.text = s.text \o delta /\ t.tools = s.tools /\ t.status # <<>>
<1> DEFINE u == [s EXCEPT !.text = @ \o delta]
<1>1. s.text \in Seq(Piece) /\ "streaming" \in Status
  BY DEF Shown, Status
<1>2. CASE delta = <<>>
  BY <1>1, <1>2, ConcatEmptySeq DEF EmitText
<1>3. CASE delta # <<>>
  <2>1. reduceAgentEvent(s, TextDelta(delta)) = SetStatus(u, "streaming")
    BY DEF reduceAgentEvent, TextDelta
  <2>2. u \in Shown /\ u.text = s.text \o delta /\ u.tools = s.tools /\ u.status = s.status
    BY <1>1, ConcatProperties DEF Shown
  <2> HIDE DEF u
  <2> QED BY <1>1, <1>3, <2>1, <2>2, StatusSet DEF EmitText
<1> QED BY <1>2, <1>3

LEMMA ToolShown ==
    ASSUME NEW s \in Shown, s.status # <<>>, NEW call \in Nat
    PROVE  LET t == reduceAgentEvent(s, ToolStarted(call))
           IN  t \in Shown /\ t.text = s.text /\ t.tools = s.tools \cup {call} /\ t.status # <<>>
<1> DEFINE u == [s EXCEPT !.tools = @ \cup {call}]
<1>1. reduceAgentEvent(s, ToolStarted(call)) = SetStatus(u, "streaming")
  BY DEF reduceAgentEvent, ToolStarted
<1>2. u \in Shown /\ u.text = s.text /\ u.tools = s.tools \cup {call} /\ u.status = s.status
  BY DEF Shown
<1> HIDE DEF u
<1> QED BY <1>1, <1>2, StatusSet DEF Status

LEMMA StatusEvents ==
    ASSUME NEW s, NEW retry \in BOOLEAN
    PROVE  /\ reduceAgentEvent(s, Event("model_response_started")) = SetStatus(s, "streaming")
           /\ reduceAgentEvent(s, Event("model_response_completed")) = SetStatus(s, "completed")
           /\ reduceAgentEvent(s, AttemptFailed(retry)) = SetStatus(s, IF retry THEN "retrying" ELSE "failed")
  BY DEF reduceAgentEvent, Event, AttemptFailed

-----------------------------------------------------------------------------
(* The end of an attempt *)

Errors == {"AuthFailed", "RateLimited", "Network", "QuotaExceeded", "InvalidRequest", "InvalidResponse",
           "StreamInterrupted", "OutputTruncated", "Cancelled"}

(* An answer is text that was read to its end, or calls that are whole.      *)
LEMMA ResponseParsed ==
    ASSUME NEW s \in Stream, NEW reason
    PROVE  LET r == parse_response(s, reason)
           IN  /\ r.kind \in {"final", "tools"} \cup Errors
               /\ r.kind = "final" =>
                    /\ r.text = s.content /\ r.calls = <<>> /\ s.calls = <<>>
                    /\ provider = "deepseek" => parse_dsml_tool_calls(s.content) = "text"
               /\ r.kind = "tools" =>
                    \/ r.calls = s.calls /\ s.calls # <<>> /\ \A c \in Range(s.calls) : Restorable(c)
                    \/ /\ r.calls = <<>> /\ s.calls = <<>> /\ r.text = s.content
                       /\ provider = "deepseek" /\ parse_dsml_tool_calls(s.content) = "calls"
<1> DEFINE r == parse_response(s, reason)
           Right == /\ r.kind \in {"final", "tools"} \cup Errors
                    /\ r.kind = "final" =>
                         /\ r.text = s.content /\ r.calls = <<>> /\ s.calls = <<>>
                         /\ provider = "deepseek" => parse_dsml_tool_calls(s.content) = "text"
                    /\ r.kind = "tools" =>
                         \/ r.calls = s.calls /\ s.calls # <<>> /\ \A c \in Range(s.calls) : Restorable(c)
                         \/ /\ r.calls = <<>> /\ s.calls = <<>> /\ r.text = s.content
                            /\ provider = "deepseek" /\ parse_dsml_tool_calls(s.content) = "calls"
<1> SUFFICES Right
  OBVIOUS
<1>1. ASSUME NEW error \in Errors, r = Err(error) PROVE Right
  <2>1. r.kind = error /\ error # "final" /\ error # "tools"
    BY <1>1 DEF Err, Errors
  <2> QED BY <2>1
<1>2. {"OutputTruncated", "Network", "InvalidResponse"} \subseteq Errors
  BY DEF Errors
<1>3. CASE r = ParsedCalls(s) /\ s.calls # <<>>
  <2>1. CASE \A c \in Range(s.calls) : Restorable(c)
    <3>1. r = Ok("tools", <<>>, s.calls)
      BY <1>3, <2>1 DEF ParsedCalls
    <3>2. r.kind = "tools" /\ r.calls = s.calls
      BY <3>1 DEF Ok
    <3> QED BY <1>3, <2>1, <3>2
  <2>2. CASE ~\A c \in Range(s.calls) : Restorable(c)
    <3>1. r = Err("InvalidResponse")
      BY <1>3, <2>2 DEF ParsedCalls
    <3> QED BY <1>1, <1>2, <3>1
  <2> QED BY <2>1, <2>2
<1>4. CASE r = ParsedText(s) /\ s.calls = <<>> /\ provider = "deepseek"
  <2>1. CASE parse_dsml_tool_calls(s.content) = "calls"
    <3>1. r = Ok("tools", s.content, <<>>)
      BY <1>4, <2>1 DEF ParsedText
    <3>2. r.kind = "tools" /\ r.calls = <<>> /\ r.text = s.content
      BY <3>1 DEF Ok
    <3> QED BY <1>4, <2>1, <3>2
  <2>2. CASE parse_dsml_tool_calls(s.content) = "text"
    <3>1. r = Ok("final", s.content, <<>>)
      BY <1>4, <2>2 DEF ParsedText
    <3>2. r.kind = "final" /\ r.text = s.content /\ r.calls = <<>>
      BY <3>1 DEF Ok
    <3> QED BY <1>4, <2>2, <3>2
  <2>3. CASE parse_dsml_tool_calls(s.content) \notin {"calls", "text"}
    <3>1. r = Err("InvalidResponse")
      BY <1>4, <2>3 DEF ParsedText
    <3> QED BY <1>1, <1>2, <3>1
  <2> QED BY <2>1, <2>2, <2>3
<1>5. CASE r = Ok("final", s.content, <<>>) /\ s.calls = <<>> /\ provider # "deepseek"
  BY <1>5 DEF Ok
<1>6. CASE r \in {Err("OutputTruncated"), Err("Network"), Err("InvalidResponse")}
  <2> HIDE DEF r, Right
  <2>1. PICK error \in {"OutputTruncated", "Network", "InvalidResponse"} : r = Err(error)
    BY <1>6
  <2> QED BY <1>1, <1>2, <2>1
<1>7. \/ r = ParsedCalls(s) /\ s.calls # <<>>
      \/ r = ParsedText(s) /\ s.calls = <<>> /\ provider = "deepseek"
      \/ r = Ok("final", s.content, <<>>) /\ s.calls = <<>> /\ provider # "deepseek"
      \/ r \in {Err("OutputTruncated"), Err("Network"), Err("InvalidResponse")}
  <2>1. CASE reason = "length"
    BY <2>1 DEF parse_response
  <2>2. CASE reason \in {"content_filter", "insufficient_system_resource", "refusal"}
    BY <2>2 DEF parse_response
  <2>3. CASE reason \notin {"length", "content_filter", "insufficient_system_resource", "refusal"}
    <3>1. r = IF s.calls # <<>> THEN ParsedCalls(s)
              ELSE IF Blank(s.content) THEN Err("InvalidResponse")
              ELSE IF provider = "deepseek" THEN ParsedText(s) ELSE Ok("final", s.content, <<>>)
      BY <2>3 DEF parse_response
    <3> HIDE DEF r
    <3> QED BY <3>1
  <2> QED BY <2>1, <2>2, <2>3
<1> HIDE DEF Right, r
<1> QED BY <1>3, <1>4, <1>5, <1>6, <1>7

(* A failed attempt is over: it is tried again after a delay, or the call    *)
(* returns the error.                                                        *)
LEMMA FailKeeps ==
    ASSUME StreamInv, pc \in {"send", "stream"}, NEW error \in Errors, Fail(error), stream' \in Stream
    PROVE  StreamInv'
<1> DEFINE retry == attempt < MaxAttempts /\ is_retryable(error)
<1>1. /\ shown' = reduceAgentEvent(shown, AttemptFailed(retry))
      /\ \/ pc' = "delay" /\ result' = result
         \/ pc' = "end" /\ result' = Err(error)
      /\ UNCHANGED setting
  BY DEF Fail, Settle, Return
<1>2. retry \in BOOLEAN
  OBVIOUS
<1> HIDE DEF retry
<1>3. shown \in Shown /\ shown.status # <<>>
  BY DEF StreamInv, Types, Streams
<1>4. shown' \in Shown
  <2>1. shown' = SetStatus(shown, IF retry THEN "retrying" ELSE "failed")
    BY <1>1, <1>2, StatusEvents
  <2>2. (IF retry THEN "retrying" ELSE "failed") \in Status
    BY DEF Status
  <2> QED BY <1>3, <2>1, <2>2, StatusSet
<1>5. Types'
  BY <1>1, <1>4 DEF StreamInv, Types, setting
<1>6. result.kind = "none"
  BY DEF StreamInv, Unanswered
<1>7. Err(error).kind = error /\ error # "final" /\ error # "tools"
  BY DEF Err, Errors
<1>8. CASE pc' = "delay" /\ result' = result
  BY <1>5, <1>6, <1>8 DEF StreamInv, Streams, Unanswered, DraftIsAnswer, CallsAreWhole
<1>9. CASE pc' = "end" /\ result' = Err(error)
  BY <1>5, <1>7, <1>9 DEF StreamInv, Streams, Unanswered, DraftIsAnswer, CallsAreWhole
<1> QED BY <1>1, <1>8, <1>9

(* While the answer comes in, nothing is returned.                           *)
LEMMA StreamMoves ==
    ASSUME StreamInv, pc # "end", pc' # "end", result' = result, Types', Streams'
    PROVE  StreamInv'
<1>1. result'.kind = "none"
  BY DEF StreamInv, Unanswered
<1> QED BY <1>1 DEF StreamInv, Unanswered, DraftIsAnswer, CallsAreWhole

LEMMA UnderWay ==
    ASSUME StreamInv
    PROVE  /\ stream \in Stream /\ shown \in Shown
           /\ stream.content \in Seq(Piece) /\ stream.pending \in Seq(Piece) /\ stream.calls \in Seq(Call)
           /\ shown.text \in Seq(Piece)
           /\ pc \in {"send", "stream"} => shown.status # <<>> /\ Faithful(stream, shown)
           /\ pc # "end" => result.kind = "none"
  BY DEF StreamInv, Types, Streams, Unanswered, Stream, Shown

LEMMA EmptyIsFaithful ==
    ASSUME NEW seen, seen.text = <<>>, seen.tools = {}
    PROVE  EmptyStream \in Stream /\ Faithful(EmptyStream, seen) /\ ~EmptyStream.started
<1>1. <<>> \in Seq(Piece) /\ <<>> \in Seq(Call) /\ Len(<<>>) = 0
  OBVIOUS
<1>2. /\ EmptyStream.content = <<>> /\ EmptyStream.pending = <<>> /\ EmptyStream.calls = <<>>
      /\ EmptyStream.mode = "LineStart" /\ EmptyStream.started = FALSE
  BY DEF EmptyStream
<1>3. EmptyStream \in Stream
  BY <1>1 DEF EmptyStream, Stream, Mode
<1>4. ProtocolAt(<<>>) = {} /\ OpensLine(<<>>, 1) /\ <<>> \o <<>> = <<>>
  BY <1>1 DEF ProtocolAt, OpensLine
<1>5. Filtered(EmptyStream, <<>>)
  <2>1. Blank(<<>>)
    BY DEF Blank
  <2> QED BY <1>1, <1>2, <1>4, <2>1 DEF Filtered
<1>6. Known(EmptyStream) = {}
  BY <1>2 DEF Known
<1> QED BY <1>2, <1>3, <1>5, <1>6 DEF Faithful

-----------------------------------------------------------------------------
(* The attempts *)

LEMMA RetryKeeps ==
    ASSUME StreamInv, Cancel \/ Retry
    PROVE  StreamInv'
<1>1. CASE Cancel
  <2>1. UNCHANGED <<provider, recovers, pc, stream, shown, result>> /\ pc # "end"
    BY <1>1 DEF Cancel, setting
  <2>2. Types' /\ Streams'
    BY <2>1 DEF StreamInv, Types, Streams, Faithful, Filtered
  <2> QED BY <2>1, <2>2, StreamMoves
<1>2. CASE SeeCancel
  <2>1. /\ UNCHANGED <<provider, recovers, stream, shown>> /\ pc' = "end" /\ result' = Err("Cancelled")
    BY <1>2 DEF SeeCancel, Return, setting
  <2>2. result'.kind = "Cancelled"
    BY <2>1 DEF Err
  <2> QED BY <2>1, <2>2 DEF StreamInv, Types, Streams, Unanswered, DraftIsAnswer, CallsAreWhole
<1>3. CASE StartAttempt
  <2>1. /\ pc = "check" /\ pc' = "send" /\ stream' = EmptyStream /\ UNCHANGED <<provider, recovers, result>>
        /\ shown' = reduceAgentEvent(shown, Event("model_attempt_started"))
    BY <1>3 DEF StartAttempt, setting
  <2>2. shown' \in Shown /\ shown'.text = <<>> /\ shown'.tools = {} /\ shown'.status # <<>>
    BY <2>1, UnderWay, AttemptShown
  <2>3. EmptyStream \in Stream /\ Faithful(EmptyStream, shown') /\ ~EmptyStream.started
    BY <2>2, EmptyIsFaithful
  <2>4. Faithful(stream, shown)'
    BY <2>1, <2>3 DEF Faithful, Filtered
  <2>5. Types' /\ Streams'
    BY <2>1, <2>2, <2>3, <2>4 DEF StreamInv, Types, Streams
  <2> QED BY <2>1, <2>5, StreamMoves
<1>4. CASE WakeUp
  <2>1. pc = "delay" /\ pc' = "check" /\ UNCHANGED <<provider, recovers, stream, shown, result>>
    BY <1>4 DEF WakeUp, setting
  <2>2. Types' /\ Streams'
    BY <2>1 DEF StreamInv, Types, Streams
  <2> QED BY <2>1, <2>2, StreamMoves
<1> QED BY <1>1, <1>2, <1>3, <1>4 DEF Retry

LEMMA FailuresKeep ==
    ASSUME StreamInv, map_status \/ ServiceFails \/ Timeout
    PROVE  StreamInv'
<1>1. /\ StatusErrors \subseteq Errors
      /\ {"Network", "InvalidResponse", "StreamInterrupted"} \subseteq Errors
  BY DEF StatusErrors, Errors
<1>2. stream' = stream /\ pc \in {"send", "stream"}
  BY DEF map_status, ServiceFails, Timeout, SendTimeout, ReadFails
<1>3. stream' \in Stream
  BY <1>2, UnderWay
<1>4. ASSUME NEW error \in Errors, Fail(error) PROVE StreamInv'
  BY <1>2, <1>3, <1>4, FailKeeps
<1>5. \E error \in Errors : Fail(error)
  <2>1. CASE map_status
    BY <1>1, <2>1 DEF map_status
  <2>2. CASE ServiceFails
    BY <1>1, <2>2 DEF ServiceFails
  <2>3. CASE SendTimeout
    BY <1>1, <2>3 DEF SendTimeout
  <2>4. CASE ReadFails
    <3> DEFINE error == IF provider = "deepseek" /\ stream.started THEN "StreamInterrupted" ELSE "Network"
    <3>1. error \in Errors
      BY <1>1
    <3>2. Fail(error)
      BY <2>4 DEF ReadFails
    <3> HIDE DEF error
    <3> QED BY <3>1, <3>2
  <2> QED BY <2>1, <2>2, <2>3, <2>4 DEF Timeout
<1> QED BY <1>4, <1>5

-----------------------------------------------------------------------------
(* The answer comes in *)

LEMMA SameText ==
    ASSUME NEW s, NEW t, NEW a, NEW b, Faithful(s, a),
           t.content = s.content, t.mode = s.mode, t.pending = s.pending,
           b.text = a.text, b.tools = Known(t)
    PROVE  Faithful(t, b)
  BY DEF Faithful, Filtered

(* A bracket is followed by no bracket, and a tag goes on after its bracket. *)
LEMMA PiecesFollow ==
    ASSUME NEW text \in Seq(Piece), NEW piece \in NextPieces(text)
    PROVE  /\ piece \in Piece
           /\ piece = "d" => text # <<>> /\ Last(text) = "<"
           /\ text # <<>> /\ Last(text) = "<" => piece # "<"
<1> DEFINE last == IF text = <<>> THEN "n" ELSE Last(text)
<1>1. piece \in {"t", "n"} \cup (IF provider # "deepseek" THEN {}
                                 ELSE CASE last = "<" -> {"d"} [] last = "d" -> {"/"} [] OTHER -> {"<"})
  BY DEF NextPieces
<1>2. text # <<>> => last = Last(text)
  OBVIOUS
<1>3. text = <<>> => last = "n"
  OBVIOUS
<1> HIDE DEF last
<1>4. CASE last = "<"
  BY <1>1, <1>2, <1>3, <1>4 DEF Piece
<1>5. CASE last = "d"
  BY <1>1, <1>2, <1>3, <1>5 DEF Piece
<1>6. CASE last \notin {"<", "d"}
  BY <1>1, <1>2, <1>3, <1>6 DEF Piece
<1> QED BY <1>4, <1>5, <1>6

LEMMA BeginKeeps ==
    ASSUME StreamInv, Accepted \/ ResponseStarted
    PROVE  StreamInv'
<1>1. CASE Accepted
  <2>1. pc = "send" /\ pc' = "stream" /\ UNCHANGED <<provider, recovers, stream, shown, result>>
    BY <1>1 DEF Accepted, setting
  <2>2. Types' /\ Streams'
    BY <2>1 DEF StreamInv, Types, Streams, Faithful, Filtered
  <2> QED BY <2>1, <2>2, StreamMoves
<1>2. CASE ResponseStarted
  <2>1. /\ pc = "stream" /\ pc' = "stream" /\ UNCHANGED <<provider, recovers, result>>
        /\ stream' = [stream EXCEPT !.started = TRUE]
        /\ shown' = reduceAgentEvent(shown, Event("model_response_started"))
    BY <1>2 DEF ResponseStarted, setting
  <2>2. stream \in Stream /\ shown \in Shown /\ shown.status # <<>> /\ Faithful(stream, shown)
    BY <2>1, UnderWay
  <2>3. /\ stream' \in Stream /\ stream'.content = stream.content /\ stream'.mode = stream.mode
        /\ stream'.pending = stream.pending /\ stream'.calls = stream.calls
    BY <2>1, <2>2 DEF Stream
  <2>4. shown' \in Shown /\ shown'.text = shown.text /\ shown'.tools = shown.tools /\ shown'.status # <<>>
    <3>1. shown' = SetStatus(shown, "streaming") /\ "streaming" \in Status
      BY <2>1, StatusEvents DEF Status
    <3> QED BY <2>2, <3>1, StatusSet
  <2>5. shown'.tools = Known(stream')
    BY <2>2, <2>3, <2>4 DEF Known, Faithful
  <2>6. Faithful(stream', shown')
    BY <2>2, <2>3, <2>4, <2>5, SameText
  <2>7. Types' /\ Streams'
    BY <2>1, <2>3, <2>4, <2>6 DEF StreamInv, Types, Streams, Faithful, Filtered
  <2> QED BY <2>1, <2>7, StreamMoves
<1> QED BY <1>1, <1>2

LEMMA TextKeeps ==
    ASSUME StreamInv, OutputText
    PROVE  StreamInv'
<1>1. pc = "stream" /\ pc' = "stream" /\ UNCHANGED <<provider, recovers, result>>
  BY DEF OutputText, Streaming, setting
<1>2. PICK piece \in NextPieces(stream.content) :
        LET f == push(stream, piece)
            s == [stream EXCEPT !.content = Append(@, piece)]
        IN  IF provider = "deepseek"
            THEN /\ stream' = [s EXCEPT !.mode = f.mode, !.pending = f.pending]
                 /\ shown' = EmitText(shown, f.out)
            ELSE stream' = s /\ shown' = EmitText(shown, <<piece>>)
  BY DEF OutputText
<1>3. /\ stream \in Stream /\ shown \in Shown /\ shown.status # <<>> /\ Faithful(stream, shown)
      /\ stream.content \in Seq(Piece) /\ shown.text \in Seq(Piece)
  BY <1>1, UnderWay
<1>4. /\ piece \in Piece
      /\ piece = "d" => stream.content # <<>> /\ Last(stream.content) = "<"
      /\ stream.content # <<>> /\ Last(stream.content) = "<" => piece # "<"
  BY <1>3, PiecesFollow
<1>5. Append(stream.content, piece) \in Seq(Piece) /\ <<piece>> \in Seq(Piece)
      /\ Append(stream.content, piece) = stream.content \o <<piece>>
  <2> DEFINE content == stream.content
  <2>1. content \in Seq(Piece) /\ piece \in Piece
    BY <1>3, <1>4
  <2> HIDE DEF content
  <2>2. Append(content, piece) \in Seq(Piece)
    BY <2>1, AppendProperties
  <2>3. Append(content, piece) = content \o <<piece>>
    BY <2>1, AppendIsConcat
  <2>4. <<piece>> \in Seq(Piece)
    BY <2>1
  <2> QED BY <2>2, <2>3, <2>4 DEF content
<1> DEFINE f == push(stream, piece)
           s == [stream EXCEPT !.content = Append(@, piece)]
<1>6. /\ s \in Stream /\ s.content = Append(stream.content, piece) /\ s.calls = stream.calls
      /\ s.pending = stream.pending
  BY <1>3, <1>5 DEF Stream
<1>7. CASE provider = "deepseek"
  <2>1. stream' = [s EXCEPT !.mode = f.mode, !.pending = f.pending] /\ shown' = EmitText(shown, f.out)
    BY <1>2, <1>7
  <2> HIDE DEF s
  <2>2. stream'.content = Append(stream.content, piece) /\ stream'.mode = f.mode /\ stream'.pending = f.pending
        /\ stream'.calls = stream.calls
    BY <1>6, <2>1 DEF Stream
  <2>3. Filtered(stream, shown.text)
    BY <1>3, <1>7 DEF Faithful
  <2>4. /\ f.out \in Seq(Piece) /\ f.mode \in Mode /\ f.pending \in Seq(Piece)
        /\ Filtered(stream', shown.text \o f.out)
    <3> DEFINE text == shown.text
               t == stream'
    <3>1. /\ stream \in Stream /\ text \in Seq(Piece) /\ Filtered(stream, text) /\ piece \in Piece
          /\ piece = "d" => stream.content # <<>> /\ Last(stream.content) = "<"
          /\ stream.content # <<>> /\ Last(stream.content) = "<" => piece # "<"
          /\ t.content = Append(stream.content, piece)
          /\ t.mode = push(stream, piece).mode /\ t.pending = push(stream, piece).pending
      BY <1>3, <1>4, <2>2, <2>3
    <3> HIDE DEF text, t
    <3>2. /\ push(stream, piece).out \in Seq(Piece) /\ push(stream, piece).mode \in Mode
          /\ push(stream, piece).pending \in Seq(Piece)
          /\ Filtered(t, text \o push(stream, piece).out)
      BY ONLY <3>1, PushSound
    <3> QED BY <3>2 DEF text, t
  <2> HIDE DEF f
  <2>5. stream' \in Stream
    BY <1>6, <2>1, <2>4 DEF Stream
  <2>6. /\ shown' \in Shown /\ shown'.text = shown.text \o f.out /\ shown'.tools = shown.tools
        /\ shown'.status # <<>>
    BY <1>3, <2>1, <2>4, TextShown
  <2>7. shown'.tools = Known(stream')
    BY <1>3, <2>2, <2>6 DEF Known, Faithful
  <2>8. Faithful(stream', shown')
    BY <1>7, <2>4, <2>6, <2>7 DEF Faithful
  <2>9. Types' /\ Streams'
    BY <1>1, <2>5, <2>6, <2>8 DEF StreamInv, Types, Streams, Faithful, Filtered
  <2> QED BY <1>1, <2>9, StreamMoves
<1>8. CASE provider # "deepseek"
  <2>1. stream' = s /\ shown' = EmitText(shown, <<piece>>)
    BY <1>2, <1>8
  <2> HIDE DEF s
  <2>2. /\ shown' \in Shown /\ shown'.text = shown.text \o <<piece>> /\ shown'.tools = shown.tools
        /\ shown'.status # <<>>
    BY <1>3, <1>5, <2>1, TextShown
  <2>3. shown.text = stream.content /\ stream.pending = <<>> /\ shown.tools = Known(stream)
    BY <1>3, <1>8 DEF Faithful
  <2>4. Faithful(stream', shown')
    BY <1>5, <1>6, <1>8, <2>1, <2>2, <2>3 DEF Faithful, Known
  <2>5. Types' /\ Streams'
    BY <1>1, <1>6, <2>1, <2>2, <2>4 DEF StreamInv, Types, Streams, Faithful, Filtered
  <2> QED BY <1>1, <2>5, StreamMoves
<1> QED BY <1>7, <1>8

LEMMA CallsKeep ==
    ASSUME StreamInv, ToolCallStarted \/ ToolArgumentsDelta
    PROVE  StreamInv'
<1> DEFINE n == Len(stream.calls)
<1>1. pc = "stream" /\ pc' = "stream" /\ UNCHANGED <<provider, recovers, result>>
  BY DEF ToolCallStarted, ToolArgumentsDelta, Streaming, setting
<1>2. /\ stream \in Stream /\ shown \in Shown /\ shown.status # <<>> /\ Faithful(stream, shown)
      /\ stream.calls \in Seq(Call)
  BY <1>1, UnderWay
<1>3. n \in Nat /\ DOMAIN stream.calls = 1 .. n
  BY <1>2, LenProperties
<1>4. shown.tools = Known(stream)
  BY <1>2 DEF Faithful
<1>5. ASSUME NEW calls \in Seq(Call), stream' = [stream EXCEPT !.calls = calls],
             shown' \in Shown, shown'.status # <<>>, shown'.text = shown.text,
             shown'.tools = {i \in DOMAIN calls : calls[i].known}
      PROVE  StreamInv'
  <2>1. /\ stream' \in Stream /\ stream'.content = stream.content /\ stream'.mode = stream.mode
        /\ stream'.pending = stream.pending /\ stream'.calls = calls
    BY <1>2, <1>5 DEF Stream
  <2>2. Faithful(stream', shown')
    BY <1>2, <1>5, <2>1, SameText DEF Known
  <2>3. Types' /\ Streams'
    BY <1>1, <1>5, <2>1, <2>2 DEF StreamInv, Types, Streams, Faithful, Filtered
  <2> QED BY <1>1, <2>3, StreamMoves
<1> HIDE DEF n
<1>6. CASE ToolCallStarted
  <2>1. PICK known \in BOOLEAN :
          /\ stream' = [stream EXCEPT !.calls = Append(@, [known |-> known, args |-> "none"])]
          /\ shown' = IF known THEN reduceAgentEvent(shown, ToolStarted(n + 1)) ELSE shown
    BY <1>6 DEF ToolCallStarted, n
  <2> DEFINE call == [known |-> known, args |-> "none"]
             calls == Append(stream.calls, call)
  <2>2. call \in Call /\ call.known = known
    BY DEF Call
  <2> HIDE DEF call
  <2>3. /\ calls \in Seq(Call) /\ Len(calls) = n + 1
        /\ \A i \in 1 .. n : calls[i] = stream.calls[i]
        /\ calls[n + 1] = call
    BY <1>2, <2>2, AppendProperties DEF n
  <2>4. stream' = [stream EXCEPT !.calls = calls]
    BY <1>2, <2>1 DEF call, Stream
  <2> HIDE DEF calls
  <2>5. DOMAIN calls = 1 .. n + 1
    BY <2>3, LenProperties
  <2>6. {i \in DOMAIN calls : calls[i].known} = Known(stream) \cup (IF known THEN {n + 1} ELSE {})
    <3>1. \A i \in 1 .. n + 1 : i \in 1 .. n \/ i = n + 1
      BY <1>3
    <3>2. 1 .. n \subseteq 1 .. n + 1 /\ n + 1 \in 1 .. n + 1 /\ n + 1 \notin 1 .. n
      BY <1>3
    <3>3. Known(stream) = {i \in 1 .. n : stream.calls[i].known}
      BY <1>3 DEF Known
    <3>4. CASE known
      BY <2>2, <2>3, <2>5, <3>1, <3>2, <3>3, <3>4
    <3>5. CASE ~known
      BY <2>2, <2>3, <2>5, <3>1, <3>2, <3>3, <3>5
    <3> QED BY <3>4, <3>5
  <2>7. CASE known
    <3>1. /\ shown' \in Shown /\ shown'.text = shown.text /\ shown'.tools = shown.tools \cup {n + 1}
          /\ shown'.status # <<>>
      BY <1>2, <1>3, <2>1, <2>7, ToolShown
    <3> QED BY <1>4, <1>5, <2>3, <2>4, <2>6, <2>7, <3>1
  <2>8. CASE ~known
    BY <1>2, <1>4, <1>5, <2>1, <2>3, <2>4, <2>6, <2>8
  <2> QED BY <2>7, <2>8
<1>7. CASE ToolArgumentsDelta
  <2>1. PICK args \in {"part", "full"} : stream' = [stream EXCEPT !.calls[n].args = args]
    BY <1>7 DEF ToolArgumentsDelta, n
  <2>2. stream.calls # <<>> /\ shown' = shown
    BY <1>7 DEF ToolArgumentsDelta
  <2>3. n \in 1 .. n
    BY <1>2, <2>2, EmptySeq DEF n
  <2> DEFINE call == [stream.calls[n] EXCEPT !.args = args]
             calls == [stream.calls EXCEPT ![n] = call]
  <2>4. stream.calls[n] \in Call
    BY <1>2, <2>3, ElementOfSeq DEF n
  <2>5. call \in Call /\ call.known = stream.calls[n].known
    BY <2>4 DEF Call
  <2>6. stream' = [stream EXCEPT !.calls = calls]
    BY <1>2, <2>1 DEF Stream
  <2> HIDE DEF call
  <2>7. /\ calls \in Seq(Call) /\ Len(calls) = n
        /\ \A j \in 1 .. n : calls[j] = IF j = n THEN call ELSE stream.calls[j]
    BY <1>2, <2>3, <2>5, ExceptSeq DEF n
  <2> HIDE DEF calls
  <2>8. DOMAIN calls = 1 .. n
    BY <2>7, LenProperties
  <2>9. {i \in DOMAIN calls : calls[i].known} = Known(stream)
    BY <1>3, <2>5, <2>7, <2>8 DEF Known
  <2> QED BY <1>2, <1>4, <1>5, <2>2, <2>6, <2>7, <2>9
<1> QED BY <1>6, <1>7

(* Only OpenAI's answer is not the stream, and it is as well formed.         *)
LEMMA AnswerTypes ==
    ASSUME NEW s \in Stream, NEW answer \in Answers(s)
    PROVE  answer \in Stream /\ (provider # "openai" => answer = s)
<1>1. CASE provider # "openai"
  BY <1>1 DEF Answers
<1>2. CASE provider = "openai"
  <2> DEFINE whole == [known |-> TRUE, args |-> "full"]
  <2>1. PICK text \in {s.content, <<>>, <<"t">>}, calls \in {s.calls, <<>>, <<whole>>} :
          answer = [s EXCEPT !.content = text, !.calls = calls]
    BY <1>2 DEF Answers
  <2>2. whole \in Call /\ "t" \in Piece
    BY DEF Call, Piece
  <2> HIDE DEF whole
  <2>3. text \in Seq(Piece) /\ calls \in Seq(Call)
    <3>1. <<"t">> \in Seq(Piece) /\ <<whole>> \in Seq(Call) /\ <<>> \in Seq(Piece) /\ <<>> \in Seq(Call)
      BY <2>2
    <3>2. s.content \in Seq(Piece) /\ s.calls \in Seq(Call)
      BY DEF Stream
    <3> QED BY <3>1, <3>2
  <2>4. answer \in Stream
    BY <2>1, <2>3 DEF Stream
  <2> QED BY <1>2, <2>4
<1> QED BY <1>1, <1>2

(* The answer is complete: it is what the user saw.                          *)
LEMMA CompletedKeeps ==
    ASSUME StreamInv, Completed
    PROVE  StreamInv'
<1>1. PICK reason \in Reasons, answer \in Answers(stream) :
        LET r == parse_response(answer, reason)
            flushed == IF r.kind = "final" THEN EmitText(shown, finish(stream)) ELSE shown
        IN  /\ stream' = [stream EXCEPT !.finish = reason]
            /\ IF r.kind \in {"final", "tools"}
               THEN /\ shown' = reduceAgentEvent(flushed, Event("model_response_completed"))
                    /\ Return(IF cancelled THEN Err("Cancelled") ELSE r)
                    /\ UNCHANGED <<attempts, cancelled, setting>>
               ELSE Fail(r.kind)
  BY DEF Completed
<1>2. pc = "stream"
  BY DEF Completed, Streaming
<1>3. /\ stream \in Stream /\ shown \in Shown /\ shown.status # <<>> /\ Faithful(stream, shown)
      /\ stream.content \in Seq(Piece) /\ stream.pending \in Seq(Piece) /\ stream.calls \in Seq(Call)
      /\ shown.text \in Seq(Piece)
  BY <1>2, UnderWay
<1>4. /\ stream' \in Stream /\ stream'.content = stream.content /\ stream'.calls = stream.calls
  <2>1. reason \in {"stop", "length", "content_filter", "insufficient_system_resource", "refusal"}
    BY DEF Reasons
  <2> QED BY <1>1, <1>3, <2>1 DEF Stream
<1> DEFINE r == parse_response(answer, reason)
           flushed == IF r.kind = "final" THEN EmitText(shown, finish(stream)) ELSE shown
<1>a. answer \in Stream /\ (provider # "openai" => answer = stream)
  BY <1>3, AnswerTypes
<1>5. /\ r.kind \in {"final", "tools"} \cup Errors
      /\ r.kind = "final" =>
           /\ r.text = answer.content /\ r.calls = <<>> /\ answer.calls = <<>>
           /\ provider = "deepseek" => parse_dsml_tool_calls(answer.content) = "text"
      /\ r.kind = "tools" =>
           \/ r.calls = answer.calls /\ answer.calls # <<>> /\ \A c \in Range(answer.calls) : Restorable(c)
           \/ /\ r.calls = <<>> /\ answer.calls = <<>> /\ r.text = answer.content
              /\ provider = "deepseek" /\ parse_dsml_tool_calls(answer.content) = "calls"
  BY <1>a, ResponseParsed
<1>6. CASE r.kind \notin {"final", "tools"}
  <2>1. Fail(r.kind) /\ r.kind \in Errors
    BY <1>1, <1>5, <1>6
  <2> QED BY <1>2, <1>4, <2>1, FailKeeps
<1>7. CASE r.kind \in {"final", "tools"}
  <2>1. /\ shown' = reduceAgentEvent(flushed, Event("model_response_completed"))
        /\ pc' = "end" /\ result' = (IF cancelled THEN Err("Cancelled") ELSE r)
        /\ UNCHANGED <<provider, recovers>>
    BY <1>1, <1>7 DEF Return, setting
  <2>2. finish(stream) \in Seq(Piece)
    BY <1>3 DEF finish
  <2> HIDE DEF r
  <2>3. /\ flushed \in Shown /\ flushed.status # <<>> /\ flushed.tools = shown.tools
        /\ r.kind = "final" => flushed.text = shown.text \o finish(stream)
        /\ r.kind = "tools" => flushed.text = shown.text
    BY <1>3, <2>2, TextShown
  <2> HIDE DEF flushed
  <2>4. /\ shown' \in Shown /\ shown'.text = flushed.text /\ shown'.tools = shown.tools
        /\ Last(shown'.status) = "completed"
    <3>1. shown' = SetStatus(flushed, "completed") /\ "completed" \in Status
      BY <2>1, StatusEvents DEF Status
    <3> QED BY <2>3, <3>1, StatusSet
  <2>5. shown.tools = {i \in DOMAIN stream.calls : stream.calls[i].known}
    BY <1>3 DEF Faithful, Known
  <2> DEFINE repeated == provider = "openai" =>
                           r.calls = stream.calls /\ (r.kind = "final" => r.text = stream.content)
  <2>6. r.kind = "final" /\ repeated => shown'.text = r.text /\ shown'.tools = {}
    <3> SUFFICES ASSUME r.kind = "final", repeated PROVE shown'.text = r.text /\ shown'.tools = {}
      OBVIOUS
    <3>1. r.text = stream.content /\ stream.calls = <<>>
      <4>1. CASE provider = "openai"
        <5>1. r.calls = <<>>
          BY <1>5
        <5> QED BY <4>1, <5>1
      <4>2. CASE provider # "openai"
        BY <1>5, <1>a, <4>2
      <4> QED BY <4>1, <4>2
    <3>2. shown.text \o finish(stream) = stream.content
      <4>1. CASE provider = "deepseek"
        <5>1. Filtered(stream, shown.text)
          BY <1>3, <4>1 DEF Faithful
        <5>2. parse_dsml_tool_calls(stream.content) = "text"
          BY <1>5, <1>a, <4>1
        <5> QED BY <1>3, <5>1, <5>2, TextIsAll
      <4>2. CASE provider # "deepseek"
        <5>1. stream.pending = <<>> /\ shown.text = stream.content
          BY <1>3, <4>2 DEF Faithful
        <5>2. finish(stream) = <<>>
          BY <5>1 DEF finish
        <5> QED BY <1>3, <5>1, <5>2, ConcatEmptySeq
      <4> QED BY <4>1, <4>2
    <3> QED BY <2>3, <2>4, <2>5, <3>1, <3>2
  <2>7. ASSUME r.kind = "tools"
        PROVE  /\ \A c \in Range(r.calls) : c.known /\ Whole(c.args)
               /\ repeated => shown'.tools = DOMAIN r.calls
               /\ r.calls = <<>> =>
                    /\ \E end \in DOMAIN r.text :
                          r.text[end] = "/" /\ \A i \in end + 1 .. Len(r.text) : r.text[i] = "n"
                    /\ \E first \in ProtocolAt(r.text) :
                          /\ \A i \in ProtocolAt(r.text) : first <= i
                          /\ Len(shown'.text) < first
                          /\ \A i \in 1 .. first - 1 :
                                IF i <= Len(shown'.text) THEN r.text[i] = shown'.text[i] ELSE r.text[i] = "n"
    <3>1. CASE r.calls = answer.calls /\ answer.calls # <<>> /\ \A c \in Range(answer.calls) : Restorable(c)
      <4>1. \A c \in Range(r.calls) : c.known /\ Whole(c.args)
        BY <3>1 DEF Restorable
      <4>2. repeated => r.calls = stream.calls
        BY <1>a, <3>1
      <4>3. ASSUME r.calls = stream.calls PROVE shown'.tools = DOMAIN r.calls
        <5>1. \A i \in DOMAIN stream.calls : stream.calls[i].known
          BY <4>1, <4>3 DEF Range
        <5> QED BY <2>4, <2>5, <4>3, <5>1
      <4> HIDE DEF repeated
      <4> QED BY <3>1, <4>1, <4>2, <4>3
    <3>2. CASE /\ r.calls = <<>> /\ answer.calls = <<>> /\ r.text = answer.content
               /\ provider = "deepseek" /\ parse_dsml_tool_calls(answer.content) = "calls"
      <4>1. answer = stream /\ Filtered(stream, shown.text)
        BY <1>3, <1>a, <3>2 DEF Faithful
      <4>2. shown'.text = shown.text
        BY <2>3, <2>4, <2>7
      <4>3. /\ \E end \in DOMAIN r.text :
                  r.text[end] = "/" /\ \A i \in end + 1 .. Len(r.text) : r.text[i] = "n"
            /\ \E first \in ProtocolAt(r.text) :
                  /\ \A i \in ProtocolAt(r.text) : first <= i
                  /\ Len(shown'.text) < first
                  /\ \A i \in 1 .. first - 1 :
                        IF i <= Len(shown'.text) THEN r.text[i] = shown'.text[i] ELSE r.text[i] = "n"
        <5> DEFINE seen == shown.text
        <5>1. seen \in Seq(Piece) /\ Filtered(stream, seen) /\ parse_dsml_tool_calls(stream.content) = "calls"
          BY <1>3, <3>2, <4>1
        <5> HIDE DEF seen
        <5>2. /\ \E end \in DOMAIN stream.content :
                    stream.content[end] = "/" /\ \A i \in end + 1 .. Len(stream.content) : stream.content[i] = "n"
              /\ \E first \in ProtocolAt(stream.content) :
                    /\ \A i \in ProtocolAt(stream.content) : first <= i
                    /\ Len(seen) < first
                    /\ \A i \in 1 .. first - 1 :
                          IF i <= Len(seen) THEN stream.content[i] = seen[i] ELSE stream.content[i] = "n"
          BY <1>3, <5>1, CallsFollowText
        <5>3. r.text = stream.content /\ seen = shown'.text
          BY <3>2, <4>1, <4>2 DEF seen
        <5> QED BY <5>2, <5>3
      <4>4. Range(r.calls) = {} /\ DOMAIN r.calls = {} /\ shown'.tools = {}
        BY <2>4, <2>5, <3>2, <4>1 DEF Range
      <4> QED BY <4>3, <4>4
    <3> QED BY <1>5, <2>7, <3>1, <3>2 DEF r
  <2>8. Types' /\ Streams' /\ Unanswered'
    BY <1>4, <2>1, <2>4 DEF StreamInv, Types, Streams, Unanswered
  <2>9. CASE cancelled
    <3>1. result'.kind = "Cancelled"
      BY <2>1, <2>9 DEF Err
    <3> QED BY <2>8, <3>1 DEF StreamInv, DraftIsAnswer, CallsAreWhole
  <2>10. CASE ~cancelled
    <3>1. result' = r
      BY <2>1, <2>10
    <3>2. AnsweredAsStreamed' <=> repeated
      BY <1>4, <2>1, <3>1 DEF AnsweredAsStreamed
    <3> HIDE DEF repeated
    <3>3. DraftIsAnswer'
      BY <2>4, <2>6, <3>1, <3>2 DEF DraftIsAnswer
    <3>4. CallsAreWhole'
      BY <2>1, <2>7, <3>1, <3>2 DEF CallsAreWhole, Whole
    <3> QED BY <2>8, <3>3, <3>4 DEF StreamInv
  <2> QED BY <2>9, <2>10
<1> QED BY <1>6, <1>7

-----------------------------------------------------------------------------
(* The invariant of every behaviour *)

LEMMA InitInv == Init => StreamInv
<1> SUFFICES ASSUME Init PROVE StreamInv
  OBVIOUS
<1>1. stream = EmptyStream /\ shown = NothingShown /\ pc = "check" /\ result = Err("none")
  BY DEF Init
<1>2. shown \in Shown /\ shown.text = <<>> /\ shown.tools = {}
  <2>1. <<>> \in Seq(Piece) /\ <<>> \in Seq(Status)
    OBVIOUS
  <2> QED BY <1>1, <2>1 DEF NothingShown, Shown
<1>3. stream \in Stream
  BY <1>1, <1>2, EmptyIsFaithful
<1>4. result.kind = "none"
  BY <1>1 DEF Err
<1> QED BY <1>1, <1>2, <1>3, <1>4 DEF Init, StreamInv, Types, Streams, Unanswered, DraftIsAnswer, CallsAreWhole

LEMMA NextInv == StreamInv /\ [Next]_vars => StreamInv'
<1> SUFFICES ASSUME StreamInv, [Next]_vars PROVE StreamInv'
  OBVIOUS
<1>1. CASE Next
  BY <1>1, RetryKeeps, FailuresKeep, BeginKeeps, TextKeeps, CallsKeep, CompletedKeeps DEF Next, Service
<1>2. CASE UNCHANGED vars
  BY <1>2 DEF vars, StreamInv, Types, Streams, Faithful, Filtered, Unanswered, DraftIsAnswer, CallsAreWhole,
                    AnsweredAsStreamed, Whole
<1> QED BY <1>1, <1>2

(* StreamInv holds in every reachable state.                                 *)
THEOREM StreamInvariant == Spec => []StreamInv
  BY InitInv, NextInv, PTL DEF Spec

(* The text a user read while it was streamed is the answer the agent got,   *)
(* at any length and after any failed attempts: nothing is lost or kept of   *)
(* them, and what the filter held back is shown in the end (deepseek.rs,     *)
(* StreamedContentFilter; agentStream.ts, latestAgentAnswerDraft).  OpenAI's *)
(* answer is read from its last event, and the draft is it where that event  *)
(* repeats what was streamed.                                                *)
THEOREM DraftIsAlwaysAnswer == Spec => []DraftIsAnswer
<1>1. StreamInv => DraftIsAnswer
  BY DEF StreamInv
<1> QED BY <1>1, StreamInvariant, PTL

(* Calls reach the agent whole and known, and a block of DeepSeek's protocol *)
(* that is carried out ends the text and was never shown: what was shown is  *)
(* all that comes before the first tag of the protocol, but for the blank    *)
(* lines right before it, which the filter holds back and drops (deepseek.rs,*)
(* StreamedContentFilter, parse_dsml_tool_calls).                            *)
THEOREM CallsAreAlwaysWhole == Spec => []CallsAreWhole
<1>1. StreamInv => CallsAreWhole
  BY DEF StreamInv
<1> QED BY <1>1, StreamInvariant, PTL

(* Only an error that may be retried leads to another attempt, and one that  *)
(* could not be read does so once.                                           *)
LEMMA RetriedError ==
    ASSUME NEW error, Fail(error), pc' = "delay"
    PROVE  \/ error \in {"RateLimited", "Network"}
           \/ error = "InvalidResponse" /\ recovers /\ ~invalid_retry_used /\ invalid_retry_used'
<1>1. /\ attempt < MaxAttempts /\ is_retryable(error)
      /\ invalid_retry_used' = (invalid_retry_used \/ ~is_safe_to_automatically_retry(error))
  BY DEF Fail, Settle, Return
<1>2. error = "InvalidResponse" => ~is_safe_to_automatically_retry(error)
  BY DEF is_safe_to_automatically_retry
<1>3. is_safe_to_automatically_retry(error) => error \in {"RateLimited", "Network"}
  BY DEF is_safe_to_automatically_retry
<1> HIDE DEF is_safe_to_automatically_retry
<1> QED BY <1>1, <1>2, <1>3 DEF is_retryable

(* An answer DeepSeek has begun, and may have billed, is not asked for       *)
(* again, except when the service itself ended it, for its content filter or *)
(* for lack of resources, or, once, when the history agent could not read it *)
(* (provider_retry.rs, is_safe_to_automatically_retry; deepseek.rs,          *)
(* parse_response).                                                          *)
THEOREM NeverBilledTwice == Spec => NoSecondBill
<1> DEFINE Excused == \/ stream'.finish \in {"content_filter", "insufficient_system_resource"}
                      \/ recovers /\ ~invalid_retry_used /\ invalid_retry_used'
           Billed == provider = "deepseek" /\ pc # "delay" /\ pc' = "delay" /\ stream.started => Excused
<1>1. StreamInv /\ [Next]_vars => Billed
  <2> SUFFICES ASSUME StreamInv, [Next]_vars, provider = "deepseek", pc # "delay", pc' = "delay",
                      stream.started
               PROVE  Excused
    OBVIOUS
  <2>1. pc # "send"
    BY DEF StreamInv, Streams
  <2>2. ASSUME NEW error, Fail(error) PROVE error \in {"RateLimited", "Network"} \/ Excused
    BY <2>2, RetriedError
  <2>3. ~map_status /\ ~SendTimeout
    BY <2>1 DEF map_status, SendTimeout
  <2>4. CASE ServiceFails
    <3>1. Fail("InvalidResponse")
      BY <2>4 DEF ServiceFails
    <3> HIDE DEF Excused
    <3>2. "InvalidResponse" \in {"RateLimited", "Network"} \/ Excused
      BY <2>2, <3>1
    <3> QED BY <3>2
  <2>5. CASE ReadFails
    <3>1. Fail("StreamInterrupted")
      BY <2>5 DEF ReadFails
    <3> HIDE DEF Excused
    <3>2. "StreamInterrupted" \in {"RateLimited", "Network"} \/ Excused
      BY <2>2, <3>1
    <3> QED BY <3>2
  <2>6. CASE Completed
    <3>1. PICK reason \in Reasons, answer \in Answers(stream) :
            LET r == parse_response(answer, reason)
            IN  /\ stream' = [stream EXCEPT !.finish = reason]
                /\ \/ r.kind \in {"final", "tools"} /\ pc' = "end"
                   \/ Fail(r.kind)
      BY <2>6 DEF Completed, Return
    <3>2. stream \in Stream
      BY UnderWay
    <3>3. stream'.finish = reason
      BY <3>1, <3>2 DEF Stream
    <3>4. reason \in {"stop", "length", "content_filter", "insufficient_system_resource"}
      BY DEF Reasons
    <3> DEFINE r == parse_response(answer, reason)
    <3>5. r.kind \in {"RateLimited", "Network"} \/ Excused
      BY <2>2, <3>1
    <3>6. CASE reason = "length"
      <4>1. r.kind = "OutputTruncated"
        BY <3>6 DEF parse_response, Err
      <4> QED BY <3>5, <4>1
    <3>7. CASE reason = "stop"
      <4>1. r = IF answer.calls # <<>> THEN ParsedCalls(answer)
                ELSE IF Blank(answer.content) THEN Err("InvalidResponse")
                ELSE IF provider = "deepseek" THEN ParsedText(answer) ELSE Ok("final", answer.content, <<>>)
        BY <3>7 DEF parse_response
      <4>2. ParsedCalls(answer).kind \in {"tools", "InvalidResponse"}
        BY DEF ParsedCalls, Ok, Err
      <4>3. ParsedText(answer).kind \in {"tools", "final", "InvalidResponse"}
        BY DEF ParsedText, Ok, Err
      <4>4. Err("InvalidResponse").kind = "InvalidResponse"
        BY DEF Err
      <4> HIDE DEF r, Excused
      <4>5. r.kind \in {"tools", "final", "InvalidResponse"}
        BY <4>1, <4>2, <4>3, <4>4
      <4> QED BY <3>5, <4>5
    <3> QED BY <3>3, <3>4, <3>6, <3>7
  <2>7. ~(Cancel \/ Retry \/ Accepted \/ ResponseStarted \/ OutputText \/ ToolCallStarted \/ ToolArgumentsDelta)
    BY DEF Cancel, Retry, StartAttempt, WakeUp, SeeCancel, Return, Accepted, ResponseStarted, OutputText, Streaming,
           ToolCallStarted, ToolArgumentsDelta
  <2>8. ~UNCHANGED vars
    BY DEF vars
  <2> QED BY <2>3, <2>4, <2>5, <2>6, <2>7, <2>8 DEF Next, Service, Timeout
<1>2. StreamInv /\ [Next]_vars => [Billed]_vars
  BY <1>1
<1> HIDE DEF Billed
<1>3. Spec => [][Billed]_vars
  BY <1>2, StreamInvariant, PTL DEF Spec
<1> QED BY <1>3 DEF NoSecondBill, Billed
=============================================================================
