---------------------------- MODULE MCFrontEnds ----------------------------
EXTENDS FrontEnds

Key == Word("k")

\* A value that looks like the beginning of a frame.
Tricky == <<EOL, Token("*", 1)>>

Set(v) == Command(<<Word("set"), Key, v>>)

Get == Command(<<Word("GET"), Key>>)

\* Commands within the limits; a get without arguments and one of the empty
\* key; a frame without an end of line where one must be; an empty name; a
\* frame longer than MaxFrame.  The second client asks or interferes once.
Streams ==
    {<<Set(Tricky), Get>>,
     <<Set(Word("v")), Set(Word("w")), Get>>,
     <<Command(<<Word("GET")>>), Command(<<Word("get"), << >>>>),
       Junk(<<Token("*", 1), EOL, Key[1]>>), Get>>,
     <<Get, Command(<< << >> >>), Get, Get, Get>>,
     <<Command(<<Word("GET"), Key, Key, Key>>), Get>>}

\* The connections side by side.
Connections ==
    {[scripts |-> <<s, t>>, calls |-> << >>, scrapes |-> 0] :
       s \in Streams, t \in {<<Set(Word("u"))>>, <<Get>>}}

Grpc(rpc, key, value) == [rpc |-> rpc, key |-> key, value |-> value]

\* One connection beside calls, or beside scrapers.
Mixed ==
    {[scripts |-> <<<<Set(Word("v")), Get>>, << >>>>, calls |-> c, scrapes |-> 0] :
       c \in {<<Grpc("Get", Key, << >>), Grpc("Set", Key, Word("g"))>>,
              <<Grpc("Get", << >>, << >>), Grpc("Set", << >>, Word("g"))>>}}
    \cup
    {[scripts |-> <<<<Get, Get, Get, Get, Get>>, << >>>>, calls |-> << >>, scrapes |-> 2]}

MCWorkloads == Connections \cup Mixed

=============================================================================
