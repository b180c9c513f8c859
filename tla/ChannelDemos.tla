---------------------------- MODULE ChannelDemos ----------------------------
(***************************************************************************)
(* The programs of channel/ as constants of Channels, named after their    *)
(* file or function. The functions of channel_select.go are programs of    *)
(* their own: its main, which runs the last two of them in turn, has the   *)
(* other calls commented out.                                              *)
(***************************************************************************)
EXTENDS Channels

SendCase(c, v, n)  == [dir |-> "send", ch |-> c, val |-> v, jump |-> n, closedJump |-> n]
RecvCase(c, n, m)  == [dir |-> "receive", ch |-> c, val |-> 0, jump |-> n, closedJump |-> m]
Select(cases)      == [do |-> "select", cases |-> cases, default |-> FALSE]
SelectOr(cases)    == [do |-> "select", cases |-> cases, default |-> TRUE]

SendTo(c, v)   == Select({SendCase(c, v, 1)})
RecvFrom(c)    == Select({RecvCase(c, 1, 1)})
CloseOf(c)     == [do |-> "close", ch |-> c]
Line           == [do |-> "print", jump |-> 1]
LineAndBack(n) == [do |-> "print", jump |-> -n]

hello == <<"hello", "world", "!">>

\* sequences of statements for each element of a list
SendAll(c, s) == [k \in 1..Len(s) |-> SendTo(c, s[k])]
RecvAll(c, n) == FlattenSeq([k \in 1..n |-> <<RecvFrom(c), Line>>])

-----------------------------------------------------------------------------

test_channel ==
  [name |-> "test_channel", cap |-> [ch1 |-> 3],
   script |-> [main |-> SendAll("ch1", hello) \o <<SendTo("ch1", "123")>>
                          \o RecvAll("ch1", 3) \o <<SendTo("ch1", "123")>>],
   delivers |-> hello, ends |-> "deadlock"]

ten == [k \in 1..10 |-> k - 1]
nine == [k \in 1..9 |-> k - 1]

test_channel2OneShort ==
  [name |-> "test_channel2OneShort", cap |-> [ch1 |-> 2],
   script |-> [main |-> <<Select({RecvCase("ch1", 1, 2)}), LineAndBack(1)>>,
               sender |-> FlattenSeq([k \in 1..9 |-> <<Line, SendTo("ch1", nine[k])>>])
                            \o <<Line, CloseOf("ch1")>>],
   delivers |-> ten, ends |-> "return"]

test_channel2 ==
  [name |-> "test_channel2", cap |-> [ch1 |-> 2],
   script |-> [main |-> <<Select({RecvCase("ch1", 1, 2)}), LineAndBack(1)>>,
               sender |-> FlattenSeq([k \in 1..10 |-> <<Line, SendTo("ch1", ten[k])>>])
                            \o <<Line, CloseOf("ch1")>>],
   delivers |-> ten, ends |-> "return"]

test_channel3 ==
  [name |-> "test_channel3", cap |-> [WriteChan |-> 1, ReadChan |-> 1, ch |-> 1],
   script |-> [main |-> <<Line, Line, Line, SendTo("ch", 6), CloseOf("ch"), RecvFrom("ch"), Line>>],
   delivers |-> <<6>>, ends |-> "return"]

channel_block ==
  [name |-> "channel_block", cap |-> [ch1 |-> 1, ch2 |-> 1, ch3 |-> 0],
   script |-> [main |-> <<SendTo("ch1", 1), SendTo("ch2", 1), SendTo("ch3", 1), RecvFrom("ch3")>>],
   delivers |-> <<>>, ends |-> "deadlock"]

channel_block2ReceivesMore ==
  [name |-> "channel_block2ReceivesMore", cap |-> [ch1 |-> 0],
   script |-> [main |-> RecvAll("ch1", 4), sender |-> SendAll("ch1", hello)],
   delivers |-> hello, ends |-> "return"]

channel_block2 ==
  [name |-> "channel_block2", cap |-> [ch1 |-> 0],
   script |-> [main |-> RecvAll("ch1", 3), sender |-> SendAll("ch1", hello) \o <<CloseOf("ch1")>>],
   delivers |-> hello, ends |-> "return"]

channel_close ==
  [name |-> "channel_close", cap |-> [ch1 |-> 1],
   script |-> [main |-> <<SendTo("ch1", 1), CloseOf("ch1"), CloseOf("ch1")>>],
   delivers |-> <<>>, ends |-> "panic"]

-----------------------------------------------------------------------------
(* channel_select.go; test_select.go is Testselect2 *)

\* index := rand.Intn(3)
Testselect1(index) ==
  [name |-> "Testselect1", cap |-> [c \in 0..2 |-> 1],
   script |-> [main |-> <<Line, SendTo(index, index),
                          SelectOr({RecvCase(c, 1, 1) : c \in 0..2}), Line>>],
   delivers |-> <<index>>, ends |-> "return"]

Testselect1_2 ==
  [name |-> "Testselect1_2", cap |-> [ch1 |-> 2],
   script |-> [main |-> <<SelectOr({RecvCase("ch1", 1, 1), SendCase("ch1", 2, 1)}), Line>>],
   delivers |-> <<>>, ends |-> "return"]

\* time.AfterFunc closes the channel in a goroutine of its own.
Testselect1_3 ==
  [name |-> "Testselect1_3", cap |-> [intChan |-> 1],
   script |-> [main |-> <<Select({RecvCase("intChan", 1, 1)}), Line>>,
               timer |-> <<CloseOf("intChan")>>],
   delivers |-> <<>>, ends |-> "return"]

getChan(i) == CASE i = 1 -> "made" [] i \in {0, 2} -> "nil"

getNumber(i) == i + 1

\* The operands are evaluated, and printed, before the select chooses.
Testselect2 ==
  [name |-> "Testselect2", cap |-> [made |-> 0],
   script |-> [main |-> <<Line, Line, Line,
                          SelectOr({SendCase(getChan(i), getNumber(i), 1) : i \in 0..2}), Line>>],
   delivers |-> <<>>, ends |-> "return"]

ForSelect ==
  [name |-> "ForSelect", cap |-> [ch1 |-> 1],
   script |-> [main |-> <<Select({SendCase("ch1", 6, 1), RecvCase("ch1", 2, 2)}),
                          LineAndBack(1), Line, Line>>],
   delivers |-> <<6>>, ends |-> "return"]

\* break loop
TestForSelect == ForSelect

\* goto loop
TestForSelect2 == ForSelect

AllDemos ==
  <<test_channel, test_channel2, test_channel3, channel_block, channel_block2, channel_close,
   Testselect1(0), Testselect1(1), Testselect1(2), Testselect1_2, Testselect1_3,
   Testselect2, TestForSelect, TestForSelect2>>
=============================================================================
