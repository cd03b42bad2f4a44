---------------------------- MODULE MCLocalAgents ----------------------------
EXTENDS LocalAgents

\* Every path is an area; the areas 1 to 3 share a slug; 4 is "other".
AreaOf == <<1, 2, 3>>
SlugOf == <<1, 1, 1, 3>>
Start(i, w, c) == [index |-> i, wt |-> w, conflicts |-> c]
MCStarts ==
  {Start(<<1, 1, 1>>, <<1, 1, 1>>, {}),
   Start(<<1, 1, 1>>, <<1, 2, 2>>, {}),      \* two areas of one slug
   Start(<<1, 1, 1>>, <<2, 2, 1>>, {}),      \* a secret in the first of them
   Start(<<1, 1, 1>>, <<2, 2, 2>>, {}),      \* more areas than groups
   Start(<<1, 1, 1>>, <<2, 2, 0>>, {}),      \* a file of the last group is gone
   Start(<<1, 2, 1>>, <<1, 0, 1>>, {}),      \* staged and changed since
   Start(<<2, 1, 1>>, <<2, 1, 1>>, {}),      \* a secret is staged
   Start(<<1, 1, 1>>, <<1, 2, 2>>, {3})}     \* a conflict

TouchesOf == <<<<"a">>, <<"a", "s">>, <<"b", "a">>>>
SizeOf == <<1, 1, 2>>

X == Text(<<"x">>)
W == Text(<<"w">>)
Y == Text(<<"y", "pair">>)
Z == Text(<<"quote", "newline", "bmp">>)
Finding(t, e) == Object(<<Member("title", t), Member("explanation", e)>>)
Roots ==
  {Object(<<Member("summary", X), Member("other", Scalar),
            Member("findings", Array(<<Finding(X, Y), Finding(Z, X)>>)), Member("summary", Y)>>),
   Object(<<Member("findings", Array(<<Object(<<Member("explanation", X), Member("other", Object(<<Member("title", Y)>>)),
                                                Member("title", X), Member("title", W)>>)>>)),
            Member("summary", X)>>),
   Object(<<Member("other", Array(<<Finding(X, X), Scalar>>)), Member("summary", X)>>),
   Object(<<Member("summary", X), Member("findings", Array(<<Finding(X, W)>>))>>),
   Object(<<Member("summary", X), Member("findings", Finding(X, X))>>),
   Object(<<Member("findings", Array(<<Finding(X, X)>>)), Member("findings", Array(<<>>)), Member("summary", X)>>),
   Object(<<Member("summary", Text(<<>>))>>),
   Object(<<Member("summary", Scalar)>>),
   Object(<<Member("summary", X), Member("findings", Array(<<Object(<<Member("title", X)>>)>>))>>)}
Document(text, root, json) == [text |-> text, root |-> root, json |-> json]
MCDocuments == {Document(<<"x", "ws">> \o Write(r), r, TRUE) : r \in Roots}
\* A document that lost a structural character, or got one too many.
Small == Write(Object(<<Member("summary", X), Member("findings", Array(<<Scalar>>))>>))
Lost(c) == RemoveAt(Small, SelectLastInSeq(Small, LAMBDA d : d = c))
MCDamaged ==
  {Document(Lost(c), Scalar, FALSE) : c \in {"}", "[", ":", ",", "quote"}} \cup {Document(Small \o <<"}">>, Scalar, FALSE)}
=============================================================================
