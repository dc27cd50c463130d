# A verification of the freedcc command station

freedcc's command station (`src/cs`) is a bare-metal AVR program: it reads
commands such as `forward addr 3 speed 12` or `stop all` from a serial terminal,
turns them into DCC packets, and modulates them onto the track of a model
railway. This directory holds a TLA+ model of it, the TLC runs that check the
model on small instances, and TLAPS proofs of what matters most for every size.

## The system

One thread of control (`main`) and two interrupt handlers share the memory.
Nothing else runs, and an interrupt handler is not interrupted.

| component | source | state it keeps | operations | talks to |
|---|---|---|---|---|
| ring buffer | ring.c | buf, size, count, start | create, push, pop, reset | used by cache, scheduler, io |
| hash table | hash.c | entries, size | create, insert, get, reset; linear probing | used by cache |
| refresh cache | cache.c | `Cache_addresses` (ring), `Cache_packets` (table) | update, get_next_packet, get, clear, sizes | scheduler (interrupt), sys (main) |
| scheduler | scheduler.c | transmit queue, stop packet, idle packet | add_packet (main), `ISR(TIMER0_COMPA)` | cache, signal |
| signal | signal.c | bytes, size, cur_byte, cur_bit, OCR1A, the pin | Signal_send, `ISR(TIMER1_COMPA)` | called by the scheduler's interrupt |
| DCC packets | dcc.c | a packet's bytes | create, destroy, setters, getters, special packets, dumps | built by the parser |
| command language | dsl.c | scanner's lookahead, token | scanner, recursive-descent parser | reads io, builds packets and system commands |
| terminal | io.c | receive ring, stdio stream | IO_read, IO_getc, IO_putc | parser, sys, main |
| system commands | sys.c | counters | status, help, cache clear, cache show | cache |
| main loop | main.c, utils.c | - | read, queue; blink_led | io, scheduler |

`src/booster` is a circuit board, and the daemon, the frontend and the repeater of
`src/README.md` have no code in the repository.

### What is hard here

* **Interrupts on everywhere.** Only `Scheduler_add_packet` turns interrupts off.
  `cache clear` empties the cache and `cache show` prints from a packet inside it
  while the 8.68 ms interrupt (Timer0: 125 counts of 1024 cycles at 14.7456 MHz)
  reads and writes the same ring, table and heap. What keeps this correct is
  nowhere said: `IO_read` blinks an LED (`io.c:76`, 50 ms of busy waiting with
  interrupts on) between understanding a command and acting on it, so the queue is
  empty by then, and an interrupt with an empty queue only reads and rotates.
* **Unchecked buffers.** `Ring_push` overwrites, `Scheduler_add_packet` does not
  look for room (`scheduler.h:29` says it does), `Cache_update` pushes on the word
  of the table.
* **Ownership by convention.** A packet is allocated by the parser and passes
  through main, the queue, and the cache or the stop packet; who frees it depends
  on what comes after it.
* **A full cache.** With more than 20 locos the probing ends at somebody else's
  entry.
* **A stop must hold**, and must make the station forget.
* **Bits that share bytes.** A packet is five bytes in which no field but the
  preamble's first half has a byte of its own; seven setters mask and shift.
* **A parser that does not back up.** An alternative of the grammar that fails keeps
  what it consumed and leaves its packet in the result for the next one.
* **Two clocks.** Timer1 toggles the pin by itself and only asks for its interrupt;
  Timer0's handler holds that interrupt up for as long as a dozen half bits, and restarts
  the bit stream wherever the track happens to be.

## Modules

| module | models | proofs |
|---|---|---|
| `Ring` | ring.c as operators on a record | `DataLemmas`: contents of the ring as a sequence |
| `Fifo`, `RingQueue` | a bounded queue; a ring under a client that keeps the rules | `RingProofs` |
| `Hash` | hash.c, one operator per function; the do-while of `Hash_find_entry` is the first probe at which it stops | `DataLemmas` |
| `Cache` | cache.c over `Ring` and `Hash`; the packets a call destroys are operators of their own (`..._frees`) | `DataLemmas` |
| `Packets` | packets as allocated blocks that hold a loco's command or a broadcast stop | |
| `LocoRegister` | abstract: what cache.h promises | |
| `LocoCache` | the cache under its callers, a call per step | `LocoCacheProofs` |
| `RefreshPolicy` | abstract: what the station promises about the track; extends `LocoRegister` | |
| `Scheduler` | scheduler.c; the interrupt as one action by case | |
| `Station` | main.c, io.c from the parser's result on, sys.c's two cache commands, utils.c, with Timer0 between any two steps; extends `Scheduler` | `StationProofs` |
| `Bytes` | an unsigned char as the set of its 1 bits | |
| `Dcc` | dcc.c: masks, special packets, setters and getters | `PacketLemmas` |
| `DccFormat` | reference: the baseline packet of NMRA S-9.2 | `PacketLemmas` |
| `Dump` | the texts that dcc.c makes of a packet for `cache show`, and the sizes of their blocks | `ConsoleProofs`: each digit in its place |
| `Dsl` | dsl.c's parser over tokens | `ConsoleProofs`: each rule of the grammar |
| `Console` | lines of tokens, what IO_read does with them, the packets that come of them; the grammar of dsl.h as the reference; extends `Dsl`, `Dump` | `ConsoleProofs` |
| `Scanner` | dsl.c's scanner over characters; extends `Dsl` | `TerminalProofs` |
| `TokenStream` | the scanner called until it yields 0, against the longest-token rule | `TerminalProofs` |
| `Terminal` | io.c character by character: the receiver with its error flags, the receive ring, the put-back character, polling, the flush; extends `Scanner`, `Ring` | `TerminalProofs` |
| `Signal` | signal.c with Timer1, Timer0 and the pin, in time | `SignalProofs` |
| `MC...` | instances for TLC | |

Correspondence to the code. `cache`, `txQueue`, `stopPacket` are the static
variables of cache.c and scheduler.c; `heap` says for each block whether it is
free or which command is in it, so a pointer is a block and a dangling pointer is
one whose block is `Free` (or holds something else); a block that the parser has
forgotten is `Lost` for good. `track` is what `Signal_send` was given last. In `Station`, `pc` says where `main` is, and each step of main is
one access to what it shares with the interrupt: `Ring_reset`'s two stores, and
the free and the store for each entry in `Hash_reset`, are actions of their own.
`Timer0` has a case for each path through the handler. What the parser does to the
heap is part of `ReadPacket` and `ReadRefused`: a line with several commands makes a
packet for each and overwrites the pointer to the one before, so a line that is obeyed
may take up to two blocks for ever, one that is refused up to one. `Console`, which
models the parser, shows that it is no more (`LossNeedsTwoCommands`).

A packet is a pair of a loco and a command, because the cache and the scheduler
tell packets apart by their address and by `DCC_is_broadcast_stop` only.
In `Dsl` a function of the grammar takes the state of a parse to the set of states it
may leave, `ok` being its return value; `AndThen` and `OrElse` are the code's `&&`
and `||`. It is a set because of `raw`: dsl.c:662 tests the payload of a result
nobody has initialised, so whether the packet is made is malloc's choice. `lost`
counts packets whose only pointer was overwritten. In `Console`, `rx` is what is
left of a line, as tokens; IO_read looks at it only when a new character has arrived
(`uart` is not empty).

`Scanner` has one operator for each kind of token; a scan says what it yields, the
character it gave back, what it has not read, and whether it met the end of the input
(`seen_end`). `Terminal` puts all of this together: `fifo` is the receiver, each
character with its FE0, `overrun` is DOR0, `rx` is `IO_rx_ring` as a record of `Ring`,
`unget` the stream's put-back character. `pc` is `idle` in main, `poll` in the loop of
IO_getc, `read` when the parser has something to read, `cut` and `ended` when IO_getc
has returned EOF, and otherwise says what main is printing. A parse is one step, for
between two looks at the receiver it shares nothing; one that asks for more than there
is keeps what it has read in `heard`, leaves the ring empty, and is in `poll` again
(`WaitForMore`). The line that comes is read behind `heard`. If the receiver reports an
error instead, the getchar that waits yields EOF (`PollError`): the token the parser is
in ends with what was heard, the scanner has met the end, and what came into the ring
meanwhile stays there, for the next command if this one is obeyed (`ended`). Only at the
beginning of a command, and behind a single `0`, where EOF is no `x`, does the code call
getchar again and read on in the ring (`cut`).

In `Signal`, `age` and `ends` are the time since the last edge and the time from
there to the next, `ocr` is the bit whose half period OCR1A holds, and `Elapse` lets
time pass to whatever comes first. Setting OCR1A below the counter makes the half
last until the counter has come round (`Wrap`). A Timer1 interrupt is held up while
`handler` is in Timer0's; several edges meanwhile ask for one interrupt. `Show` reads
the track as a decoder would: two equal halves of a legal length are a bit.

Contents of uninitialised ring slots are arbitrary in `RingQueue` and 0 in
`Cache`, where they are never read.

## Runs

| run | instance | shows |
|---|---|---|
| ring_queue | 3 slots, 2 values, arbitrary initial contents | every start and count; the ring implements `Fifo` |
| cache_fits | 3 entries, 3 locos with colliding homes (0, 0, 1), 2 commands | implements `LocoRegister`; lookups find the loco's own packet |
| cache_crowded | 3 entries, 4 locos with homes 1, 0, 2, 0 | eviction never overflows the ring, breaks probing, leaks, or keeps an old command |
| station | 3 entries, locos with homes 2, 1, 2 (one wraps), 2 commands, a stop, 5 blocks, a queue of one, blink of 1 tick | memory, purge, dump, stop, and the refinement of `RefreshPolicy` |
| station_live | 2 entries, 2 colliding locos, 1 command, 4 blocks, a queue of one, blink of 2 ticks, fairness | commands reach the track, locos are refreshed |
| console_lines | every line of up to 3 of 17 words, of 4 of 7 words, of 5 that begin with `forward`, a few longer ones; and moves with addresses 0-128, 255, 256, 300, 32767, steps 0-30, 58, 255, 256, 284, 285 and both directions (each address with 6 steps, each step with 6 addresses) | sentences do what they say, in the frames of S-9.2; the getters read them back; stops are recognised; a packet never has a number that was not typed; what a parse can lose |
| console_raw, console_dump | as console_lines | statements of README.md and dcc.c that fail |
| scanner | every text of up to 5 of 7 characters (two letters, one of them `x`, two digits, blank, newline, a stray), two numbers beyond an int; a buffer of 2 | the longest token, or what the buffer holds of it; no character lost, none read twice but one hex digit, never into the next line; the byte of a number survives an overflow |
| terminal | a line that fills the ring and, whole or split by a receiver error, is obeyed, refused or obeyed in part, with a letter or a digit left behind; an unfinished text; ring of 4, receiver of 2; any character may come damaged | the ring gives what was typed; receiver errors clear; a line that comes to a waiting main is read whole, and so is what it has behind its first command |
| terminal_errors | as terminal | a statement of dsl.c that fails |
| signal | idle, reset (most zeros) and a loco's packet; handler of 0, 3 or 50 units before Signal_send and 1, 9 or 100 after | bits in order, undistorted and in time; at most one preamble bit lost |

Bounds. The table's behaviour depends on the size and on the addresses only through
which homes collide and where a probe wraps; three entries have every pattern of
collision, wrap and full table. Two commands are enough to tell an old one from a
new one. Blocks are `CacheSize + 2`: `InUseBounded` shows that no more are ever in use
at once, and that the parser always finds one as long as none is lost. Those the parser
forgets are taken from the same blocks, so the runs go through every combination of lost
and free blocks down to a heap without room for a parse, and stop reading there. The
queue has one slot in the runs and 20 in the code; `QueueShort` shows that it never takes
more. `BlinkTicks` is what a blink lasts at least, for the model's blink may go on for
ever; the code has 5. The safety runs and theorems need one. `station_live` has two, the
least for which every loco is refreshed whatever the operator types: each blink then has
a tick for the new packet and one for a refresh (`LocosRefreshed`). Commands and blocks are interchangeable, hence the symmetry sets (never
with a liveness property).

The setters only mask and shift, and the address and the speed share their bytes with
fixed bits, the direction and the checksum, which is set last, so `console_lines`
takes every value in range and the boundaries of each reduction (128, 256, 29), up to
the largest int, but not every pair of them. The parser's longest sentence has five
words; the lines are all of three words, where every pair of failing alternatives
occurs, those of four and five that can make a packet of a loco, and the shortest that
sets an address twice. Numbers beyond an int are the scanner's subject.

A scan ends at the first character that is of another kind, so what it does depends
on the kinds of the characters before it; five characters hold three tokens with
something between them and a token that is longer than a buffer of two by three, or by
one behind its `0x`.
(The texts are closed under suffixes, so each call of a scanner on what the last has
left is one of its calls on a fresh text.) In `terminal` a text of four and an
unfinished one of one make a line longer than the ring; an error in the middle of the
text makes main obey its `s`, or refuse it with `s` or `0` put back, so the next parse may
begin with either, wait for more, and meet an error there; `MaxTyped` keeps unfinished
texts from going on for ever.

`Signal` counts in units of 106.6 cycles: half periods of 852 and 1617 cycles are 8
and 15, the 128000 cycles of Timer0 are 1200, a turn of the counter 614. The longest
of the station's packets (reset, 27 zeros) takes 109500 cycles, which leaves 18500 for
a bit in progress and for Timer0's handler; with two searches of the table at its
longest the handler was estimated at up to 14000 cycles, and the runs let it take 150
units, about 16000, of which 50 are before Signal_send. The period is a fixed number
of units, so the phase between the timers drifts through the lengths of packets and
handlers, not through every value.

Fairness (`StationFairness`): `WF(Tick)`, because the timer runs and nothing keeps
interrupts off for long; `WF(MainStep)`, because main runs between interrupts.
Reading a command is not fair: the operator need not type. `Terminal` assumes
`WF(Receive)`, a text that has begun comes to its end, and weak fairness of IO_read,
for main calls it for ever; the latter is written out (`MainRuns`) by the condition
under which IO_read can take a step. Nobody need send a text, and no text need come
undamaged.

While main looks at the receiver, `Terminal` lets a character come only when the last
has been taken: a character takes 1 ms at 9600 baud, a turn of the loop microseconds
(an echo may have to wait for the one before it, which was sent at the same speed).
While main prints, characters come without limit and those beyond the receiver's two
are lost. The first character of a line that comes at full speed right after an
answer, or after a prompt that a left-over newline has brought, can therefore be lost;
`TypedIsRead` is about a main that waits with nothing left over.

## Findings

Each of these three is shown by a run whose property is the quoted statement.

* `raw` tests an uninitialised pointer (`dsl.c:662`): if malloc returns memory that
  is zero there, the command is taken for correct, counted, and nothing is sent
  (`console_raw`), against README.md's "raw DCC packet passthrough".
* `dcc.c:330` "Calculate the dump length" counts one blank too few: the binary dump of
  five bytes is 44 characters and a NUL in a block of 44, so each `cache show` that
  finds a packet writes a zero behind its block (`console_dump`). What it prints is
  right (`DumpsRead`), and the hex dump has its room.
* `dsl.c:142` "Clear the input": the flush after a parse error empties the ring and
  the receiver, but not the character that the scanner has put back. After `3stop` is
  refused, `s` is in front of the next line, and `stop all` is refused too
  (`terminal_errors`).

Noticed on the way, without a run of their own:

* `cache.h:8` "Store last packet sent for each loco" holds for up to 20 locos
  (`ImplementsRegister` in `cache_fits`; `ListsActiveLocos` and `GetFindsOwnPacket` fail
  in the instance of `cache_crowded`). The 21st takes the entry at which its probe ends: the loco that had
  it is refreshed with the newcomer's command, the newcomer is not listed (against
  `cache.h:9`), and `cache show` of the displaced loco prints the newcomer's packet
  (against `sys.c:169`).
* `dsl.h:108` has the parser stop at a syntax error. It goes on with the next
  alternative behind the words that were consumed: `forward stop` stops every loco,
  and `stop addr` without a number does too. On the way, a packet is overwritten in
  the result (`forward reverse`), and the "Trash the result" of `dsl.c:145` frees the
  last one only. `LossNeedsTwoCommands` bounds the loss of a line; that of a session has
  no bound but the heap, and `calloc` is not tested (`dcc.c:71`).
* `dsl.c:219` has "zero or odd number" of hex digits refused, and `0x` alone is
  accepted; `LongestToken` leaves this out by name (`Unusual`). Words and hex strings
  beyond 20 characters are cut there and go on as the next token (`Fitting`), and of a
  hex string that fills the buffer the last digit is read twice (`Behind`).
* `test/cs_test_1.c:86` writes its command without the newline: main goes on polling,
  and the next command is read as part of the same line.
* A line that a receiver error ends is parsed up to there and may be obeyed:
  `stop addr 3` of which only the first word came undamaged is a stop for all. If the
  error comes while the parser waits for the rest of a command that began with left-over
  characters, what came before the error is not part of it and is read later.
* A command that leaves its newline unread (`show status`, `cache clear`) makes the
  first character of the next line bring a prompt of ten characters, during which a
  line that comes at full speed overruns the receiver.
* `scheduler.h:29` says `Scheduler_add_packet` checks for room. It does not;
  `QueueShort` shows why nothing is lost.
* `dsl.h:35` has `FORWARD addr speed`; the parser takes `speed` first as well, and
  `Grammar` allows it.
* `signal.h:24` says any array of bytes is modulated bit by bit. The station's own
  packets are safe (`EachBitInSequence`, `ShownInTime`); raw packets need not be. With
  0x5a0f, which begins with a zero, as a member of `Packet` (and `MCSignalAssumption`
  taken out), TLC finds `EachBitInSequence` violated, because the bit it interrupts has
  halves of different length; with ten bytes of which most are zero it finds
  `ShownInTime` violated.
* Without contradicting any document: a line that begins with a blank is read when
  the next character arrives, because `io.c:69` takes the blank for an empty line and
  `io.c:67` waits for the receiver; so is whatever follows a command on its line.

## Proofs

All theorems are for every value of the constants that satisfies the named
assumptions: sizes are positive, locos are numbers, `NULL`, `Idle`, `Free` and `Lost` are
nothing else (no block, no command, no message), `BlinkTicks` is at least 1, a half of
a one is shorter than a half of a zero and both are shorter than a turn of the counter,
and a line is a sequence of what the scanner may yield: any integer, any string of
bytes, the twelve words of the language, and what is none of these. Lines may have any
length, and `Line` may be all of them. Of characters it is assumed that no letter is a
digit, a blank or a newline, that keywords are of letters, that the scanner's buffer has
an even number of places (`DSL_MAX_TOK_LEN` is 20), and that a text is a sequence of
characters and not empty.
Two more hypotheses are stated where they are needed and nowhere else; each is true
of some runs' constants and false of others that were tried, so none is idle:

| hypothesis | says | without it |
|---|---|---|
| `LocosFit` | there are finitely many locos, no more than cache entries | true in `cache_fits` and `station`; with the constants of `cache_crowded` TLC refutes `ListsActiveLocos` and `GetFindsOwnPacket` |
| `BeginWithOne`, `PacketsFit` | a packet begins with a one; its bits and the longest handler fit in a period of Timer0 | TLC refutes `EachBitInSequence` and `ShownInTime` for the raw packets under Findings |

### The ring, the table and the cache

* `RingTypeCorrect`, `RingIsFifo` (`RingProofs`): by lemmas on what push, pop and
  reset do to the sequence of elements (`DataLemmas`), modular arithmetic included.
* `DataLemmas` proves of the operators of `Hash` and `Cache` what every caller needs, and
  before that a few facts about numbers, sequences and functions that recur.
  The probing is a statement about the first probe at which the search stops, so
  `Reached` (each entry in use is where the search for its own address ends) is shown
  to survive insertions and evictions by comparing least elements, not by induction on
  the number of probes. `CacheSound` is what holds of a cache between calls: the
  addresses in the ring are different and as many as the entries in use, and they are
  the addresses of the table, or the table is full. The last alternative is what
  eviction leaves behind: a loco whose packet was overwritten keeps its turn.
* `LocoCacheProofs`: the inductive invariant `CacheInv` is `CacheSound` and `Held`
  (every entry in use owns a block, which holds the last command its loco was given).
  For any number of locos, however many more than entries: `CacheTypes`,
  `RotaIsBounded`, `ProbingAlwaysFinds`, `CacheLeaksNothing`, `CacheKeepsLast`. If the
  locos fit: `LocosListed`, `GetsOwnPacket`, and `CacheIsRegister`, the refinement of
  `LocoRegister`, each call a step of the register or no change to it.

### The station

* `QueueStaysShort`, `SysCommandsRunAlone` (`StationProofs`): `QueueShort` is not
  inductive; `Drained` adds that a blink of which a tick has passed has an empty
  queue.
* `PacketsOwnedOnce`, `StopStaysOnTrack`: the inductive invariant `MemoryInv` is `Drained`, the types that matter, `Owned` (who points
  at which block, as a predicate on its arguments, so that each transfer of a
  packet is a lemma about it), that main holds a packet only between reading and
  queueing, and that a stop on the track is the stop packet's. `Owned` also says
  that the table is empty while a stop is in force, without which a refresh could
  not be told from a resend. One lemma per action, combined in `StepMemory`.
* `CommandInv` adds to `MemoryInv` that the cache is sound
  (`CacheOK`), except from the moment `cache clear` has set the count of the addresses
  to 0 until it has nullified the last entry, when instead the entries in front of `i`
  are NULL; that a packet is kept under the address it is for (`KeyedOK`); that what
  main has read is still so when it uses it (`MainOK`: the size it is going to print,
  the packet it is going to dump); and that what is on the track is a packet
  (`TrackOK`). From it follow `StationTypes`, `StopsForget`, `PurgesAreExact`, and
  `InUseIsBounded`: an entry, the queue and the stop packet own different blocks, and a
  stop in force means that the entries own none, however many blocks there are and
  however many are lost; with `LocosFit`, `DumpsAreStable`.
* `StationIsPolicy`: the station implements `RefreshPolicy`, if the
  locos fit. What the track owes is read off the station's state (`LastSaid`,
  `ServedNow`, `PendingNow`, `HaltedNow`), and one lemma per action shows which step
  of the policy it is: queueing a packet accepts it, setting the count of the addresses
  to 0 is the purge (the rest of `cache clear` changes nothing that counts), an
  interrupt sends a stop, sends a command, repeats the stop or repeats the command
  whose turn it is, and everything else is no step.

### The signal

* `SignalTypes` (`SignalProofs`) needs no hypothesis. The others are for packets that
  begin with a one and fit: `BitsInSequence`, `PacketsShownInTime`, `PreamblesKept`,
  `NeverStretched`. They depend on each other: a packet may be sent at any point of a
  bit only because a one is on the track then, that is so only because the last packet
  is over, and it is over in time only because no half was stretched. So they are one
  inductive invariant, `SignalInv`: every half is as long as OCR1A says, and while a
  rising edge waits for its interrupt the counter has not passed the half of a one
  (`HalvesOK`); ones are on the track while Timer0's handler runs (`HandlerOK`); the
  track has shown the first `Begun` bits or all but the last of them (`InOrder`,
  `OnesOK`); and the clock, what is left of the bit on the track and the bits not yet
  begun add up to no more than the period (`OnSchedule`).
* The time of the bits (`BitsTime`) is not a sum over a sequence but two halves of a
  one per bit and the difference for each zero, counted by the cardinality of the
  zeros; `TimeOfBits` is the step from one bit to the next.
* The theorems hold for cycles as well as for the units of the run: with halves of 852
  and 1617 cycles, a counter of 65536 and a period of 128000, the longest packet of the
  station takes 109470, and `PacketsFit` leaves Timer0's handler 18530.

### The commands

* `PacketLemmas`: `Draft` says what the bytes of a packet are while the parser works on
  it, in terms of the address, the direction and the code of the speed that were set and
  of which of the preambles was. Each setter takes a draft to a draft whatever was set
  before, so an alternative that starts over on the packet of the one before does no
  harm, and every address, speed and direction is dealt with together, which the run
  cannot do. `FinishedFrame` is that a complete draft with its checksum and its end is
  the frame of S-9.2, bit by bit.
* `ConsoleProofs`, the parser: one lemma per rule of the grammar says where on the line the rule may
  leave the parser, what it then has in the result, and what the line must have held for
  that (`AddrRule`, `SpeedRule`, `MoveRule`, `StopRule`, `RawRule`, `HelpRule`,
  `ShowRule`, `CacheRule`). No rule consumes a newline, so the parser is
  always at a token of the line (`At`). `Parsing`
  puts the seven rules in the order in which `DSL_parser_start` tries them: what an
  alternative leaves behind is `Early` (no packet allocated yet) or `Late` (as many
  packets lost as commands were passed, less one), and from `Late` comes
  `LossNeedsTwoCommands`. `SentenceParsed` is about the lines of the grammar, for which
  every alternative before the right one leaves the line untouched.
* `ConsoleProofs`, the loop: the inductive invariant `ConsoleInv` is that what waits to be read is
  a line or nothing (`Waiting`) and that what was said last is what some parse of `line`
  comes to (`Answered`). From it and the lemmas: `TypeCorrect`, `Obeyed`, `NotInvented`,
  `LossNeedsTwo`, `StopsStop`, `SettersKeep`.
* `ConsoleProofs`, the dumps: a closed form of the text says which digit of which byte
  stands where (`Text`); the loop of dcc.c comes to it, because only the last piece may
  go beyond the length (`LoopDumps`, `TextLaid`), and without its blanks it is the
  digits (`TextSpaceless`, `PrintedIs`). The binary digits are the bits (`BinaryDump`);
  the hex digits give the bytes back, and the text fills its block exactly
  (`HexadecimalDump`). So `DumpsAreRead` holds of packets of any length.

### The characters

All of this is in `TerminalProofs`, the facts about recursive functions in `DataLemmas`.

* The scanner. `Scanning` says what a call leaves of a stream: at most one character is
  put back, something is gone, a token is not empty, and the end of a line is not
  passed. From it, for `Scans`: the calls for a stream of length n have come to one
  that yields 0 after n + 1 at most (`ScansAre`).
* `TakesLongest`: `NextTokenCases` splits `DSL_next_token` by the first character;
  `WordLongest`, `NumberLongest`, `HexLongest` and `NoneLongest` say what the longest
  token of the definition is in each case, `WordTakes`, `NumberTakes`, `HexTakes` and
  `NoneTakes` that it is what the scanner takes. `NumberIsWritten`: a wrap of an int
  changes it by a multiple of 65536, which its low byte does not see, digit for digit.
  The input may have any length and be over any letters, the buffer any even size.
* Where a parse ends. The rules of the grammar are gone through once more, for one
  fact only: the token a parse ends at is one of those it was given (`ParserOn`). It
  holds of tokens of any kind and any value, which is why it is not taken from the lemmas of
  `ConsoleProofs`. With it `ParsesAre`: the scan that a parse ended with is a scan of the
  stream, so what it leaves is a part of it, and of a finished line it does not miss
  the end.
* The ring. `RingHoldsLine` is not inductive for the same reason that the code is hard
  to see through: `count` goes on when the ring is full, so the slots in front hold
  characters that are typed later. The invariant `TerminalInv` speaks of slots instead:
  the last `RingSize` characters that were typed and not read are each in the slot of
  its place (`Held`), and a line that is not finished is being polled for, unless an
  error flag is up (`Unfinished`). A push takes the slot of the oldest of these
  (`PushHeld`), the pops of a parse leave those that it has not read (`PopToHeld`), and a
  parse that has heard something has read at least that (`LeftToPop`). From
  `TerminalInv`: `TerminalTypeCorrect`, `RingCorrect`.
* `WholeLineSuffices`: a parse that has a whole line before it never waits. What is put
  back and what is left in the ring end with the newline, so do they behind what was heard
  (`HeardEnded`), and no scan goes on beyond it. It is an action property of the
  specification that no run lists.

`Scans`, `NumberOf`, `Written` and `PopTo` are recursive functions. That each exists is
proved once, for any step (`Recurring`), by the least number for which it would not;
what it computes likewise, by the least number at which the claim would fail
(`LeastNatural`): no induction theorem is needed. The loops of the dumps are recursive
functions too: they exist because a function with their values is written down.

`CacheInv`, `CommandInv`, `SignalInv`, `ConsoleInv` and `TerminalInv` were checked by TLC
on the constants of the runs before they were proved.

### Only model-checked

* Liveness (`PacketReachesTrack`, `LocosRefreshed`, `FlagsClear`, `TypedIsRead`,
  `RestIsRead`): the proof system does not reason about fairness and ENABLED.
* The three statements of the repository that fail: their runs show a counterexample.

## Not modelled

The counters of the status command and what status and help print (nothing else reads
the counters; they are ints and overflow after 32767 commands), the echo, the two
unused dumps of dcc.c and `DCC_compare_speed`, `Hash_destroy` and `Ring_destroy` (never
called), the programming of the ports and timers beyond their periods, the C library's
heap structure and a `calloc` that fails, what lies in memory behind a short raw packet, and the booster's circuit. Keys of the hash table are
not negative here: `cache show` with a number beyond 32767 makes one that is, and reads
in front of the table. Upper-case letters are folded into lower case.

## Plan

1. A crowded instance of `Station` (more locos than entries, evictions during a clear
   or a show), against an abstract register that forgets, if its state space allows;
   `DumpsAreStable` says what a show prints only if the locos fit.
2. Proofs: that the special packets and those of the parser begin with a one and fit, so
   that the theorems about the signal apply to whatever the station sends but raw
   packets.
