----------------------------- MODULE MCDocument -----------------------------
(* Small documents, and texts with the mistakes the parser tells apart.     *)
EXTENDS XMLDocument

x == <<120>>
y == <<121>>
MCNames  == {x}
MCValues == {<<"string", <<Amp>>>>}
MCSamples == {<<"int", Lowest("int")>>, <<"int", Highest("int")>>, <<"unsigned", Highest("unsigned")>>,
              <<"int64", Lowest("int64")>>, <<"bool", TRUE>>, <<"bool", FALSE>>, <<"double", -3>>,
              <<"float", 5>>, <<"string", <<Amp, Lt>>>>}
MCBits   == [int |-> 4, unsigned |-> 4, int64 |-> 6]
MCMakes  == Kinds

Open(n)  == Markup("element", "open", n, <<>>)
Shut(n)  == Markup("element", "close", n, <<>>)
Empty(n) == Markup("element", "empty", n, <<>>)
Leaf(k)  == Markup(k, "whole", <<Amp>>, <<>>)
Torn(k)  == Markup(k, "broken", <<97>>, <<>>)
Word     == Chars(PrintString(<<Amp>>, TRUE))
Gap      == Chars(<<LF, Space>>)

MCTexts == {
  <<>>, Gap,
  <<Open(x)>>, <<Open(x)>> \o Gap,                       \* no end tag
  <<Open(x)>> \o Word,
  <<Open(x)>> \o Chars(<<97>>) \o <<Shut(x)>>,
  <<Open(x), Empty(y), Shut(y)>>,                        \* another end tag
  <<Empty(x), Shut(x), Open(y)>>,                        \* an end tag too many
  <<Open(x), Open(x), Open(x), Shut(x), Shut(x), Shut(x)>>,  \* too deep
  <<Leaf("declaration"), Leaf("declaration"), Leaf("comment")>>,
  <<Leaf("comment"), Leaf("declaration")>>,              \* too late
  <<Open(x), Leaf("declaration"), Shut(x)>>,
  <<Open(x)>> \o Word \o <<Torn("element")>>,
  <<Open(x), Torn("comment")>>, <<Leaf("cdata"), Torn("cdata")>>,
  <<Markup("element", "empty", x, <<<<x, <<97>>>>, <<x, <<97>>>>>>)>>,
  <<Empty(x)>> \o Word
}
=============================================================================
