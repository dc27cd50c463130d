------------------------------ MODULE MCConsole ------------------------------
EXTENDS Console

forward == Word("forward")
reverse == Word("reverse")
stop == Word("stop")
addr == Word("addr")
speed == Word("speed")
all == Word("all")
raw == Word("raw")
show == Word("show")
cache == Word("cache")

MoveLine(t, a, s) == <<t, addr, Number(a), speed, Number(s)>>

(* Every line of up to three words, of four that move a loco or stop one,  *)
(* of five that begin with forward; and lines in which an address is set   *)
(* twice.  40 has bits in both bytes of an address, 300 fits no byte.      *)
Words == {forward, reverse, stop, addr, speed, all, raw, show, cache, unknown,
          stray, Word("status"), Word("help"), Word("clear"),
          Number(40), Number(3), Hex(<<90, 15>>)}
MoveWords == {forward, stop, addr, speed, all, Number(40), Number(3)}
SetTwice == {<<t, addr, Number(3), speed, speed, Number(5), addr, Number(40)>> :
               t \in {forward, reverse}}
ShortLines == UNION {[1 .. n -> Words] : n \in 1 .. 3}
              \cup [1 .. 4 -> MoveWords]
              \cup {<<forward>> \o l : l \in [1 .. 4 -> MoveWords]}
              \cup SetTwice

(* Every address, speed and direction, and numbers beyond: every address   *)
(* with speeds that use each bit, every speed with such addresses.         *)
Addresses == (0 .. 128) \cup {255, 256, 300, 32767}
Steps == (0 .. 30) \cup {58, 255, 256, 284, 285}
SomeAddresses == {0, 1, 21, 42, 64, 127}
SomeSteps == {0, 1, 8, 15, 28, 300}
Moves == {MoveLine(t, a, s) : t \in {forward, reverse}, a \in Addresses, s \in SomeSteps}
           \cup {MoveLine(t, a, s) : t \in {forward, reverse}, a \in SomeAddresses, s \in Steps}
           \cup {<<stop, addr, Number(a)>> : a \in Addresses}
           \cup {<<stop>>, <<stop, all>>}

Lines == ShortLines \cup Moves
OnlyStop == {<<stop>>}

=============================================================================
