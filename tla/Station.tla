------------------------------- MODULE Station -------------------------------
(***************************************************************************)
(* The command station: the main loop of cs/main.c and io.c, one step per  *)
(* access to what it shares with the Timer0 interrupt, and that interrupt  *)
(* between any two of them.  Nothing but Scheduler_add_packet turns        *)
(* interrupts off, so emptying the cache (sys.c) and showing a packet of   *)
(* it run unprotected.  What protects them is blink_led: IO_read blinks    *)
(* for 50 ms after every command it understood and before it acts on it,   *)
(* and Timer0, firing meanwhile, empties the queue.                        *)
(***************************************************************************)
EXTENDS Scheduler

CONSTANTS BlinkTicks,   \* interrupts during one blink, at least: 5 of 8.68 ms
          Lost          \* what a block holds that is allocated for ever

ASSUME BlinkAssumption == BlinkTicks \in Nat \ {0}
ASSUME LostAssumption == Lost \notin Message \cup {Free}

VARIABLES pc,          \* where main is
          command,     \* the command it works on
          packet,      \* the packet IO_read has and the queue has not, or NULL
          ticks,       \* interrupts since the blink began, up to BlinkTicks
          curr,        \* Sys_cmd_cache_clear's count
          i,           \* Hash_reset's loop counter
          cached       \* what Sys_cmd_cache_show found

mainVars == <<pc, command, packet, ticks, curr, i, cached>>
vars == <<schedulerVars, mainVars>>

NoCommand == [type |-> "none", loco |-> NULL]

StationInit ==
  /\ Scheduler_module_init
  /\ pc = "read"
  /\ command = NoCommand
  /\ packet = NULL
  /\ ticks = 0
  /\ curr = 0
  /\ i = 0
  /\ cached = NULL

-----------------------------------------------------------------------------
(* IO_read understands a line: the parser has built a packet, or a system  *)
(* command; help and status leave the state of this module alone.  Each of *)
(* forward, reverse and stop that the parser meets makes a packet and      *)
(* forgets the one before, which nobody then frees.  (A heap without room  *)
(* for a parse is not modelled: the parser would write through NULL.)      *)
FreeBlocks == Block \ Allocated(heap)
Forget(h, blocks) == [b \in Block |-> IF b \in blocks THEN Lost ELSE h[b]]

ReadPacket(m) ==
  /\ pc = "read"
  /\ \E b \in FreeBlocks : \E forgotten \in SUBSET (FreeBlocks \ {b}) :
       /\ Cardinality(forgotten) <= 2
       /\ heap' = CreatePacket(Forget(heap, forgotten), b, m)
       /\ packet' = b
  /\ command' = [type |-> "packet", loco |-> NULL]
  /\ pc' = "blink"
  /\ ticks' = 0
  /\ UNCHANGED <<cache, txQueue, stopPacket, track, curr, i, cached>>

(* A line it refuses after a second command: of its packets the last one   *)
(* is destroyed again.                                                     *)
ReadRefused ==
  /\ pc = "read"
  /\ \E b \in FreeBlocks : /\ FreeBlocks # {b}
                           /\ heap' = Forget(heap, {b})
  /\ UNCHANGED <<cache, txQueue, stopPacket, track, mainVars>>

ReadClear ==
  /\ pc = "read"
  /\ command' = [type |-> "clear", loco |-> NULL]
  /\ pc' = "blink"
  /\ ticks' = 0
  /\ UNCHANGED <<schedulerVars, packet, curr, i, cached>>

ReadShow(l) ==
  /\ pc = "read"
  /\ command' = [type |-> "show", loco |-> l]
  /\ pc' = "blink"
  /\ ticks' = 0
  /\ UNCHANGED <<schedulerVars, packet, curr, i, cached>>

(* Where a command goes on after the blink. *)
Handler == [packet |-> "add", clear |-> "report", show |-> "lookup"]

(* Mutant: the LED does not hold the command up. *)
NoBlink == /\ pc = "blink"
           /\ pc' = Handler[command.type]
           /\ ticks' = 0
           /\ UNCHANGED <<schedulerVars, command, packet, curr, i, cached>>

(* blink_led returns once its time is up. *)
BlinkDone == /\ pc = "blink"
             /\ ticks = BlinkTicks
             /\ pc' = Handler[command.type]
             /\ ticks' = 0
             /\ UNCHANGED <<schedulerVars, command, packet, curr, i, cached>>

(* main hands the packet over and forgets it. *)
AddPacket == /\ pc = "add"
             /\ Scheduler_add_packet(packet)
             /\ packet' = NULL
             /\ pc' = "read"
             /\ command' = NoCommand
             /\ UNCHANGED <<cache, heap, stopPacket, track, ticks, curr, i, cached>>

-----------------------------------------------------------------------------
(* Sys_cmd_cache_clear, from counting to printing, write by write. *)
ReportSize == /\ pc = "report"
              /\ curr' = Cache_report_current_size(cache)
              /\ pc' = "resetCount"
              /\ UNCHANGED <<schedulerVars, command, packet, ticks, i, cached>>

SetAddresses(r) == cache' = [addresses |-> r, packets |-> cache.packets]
SetPackets(h) == cache' = [addresses |-> cache.addresses, packets |-> h]

(* Ring_reset: the count, ... *)
ResetCount == /\ pc = "resetCount"
              /\ SetAddresses([buf |-> cache.addresses.buf,
                               size |-> cache.addresses.size,
                               count |-> 0, start |-> cache.addresses.start])
              /\ pc' = "resetStart"
              /\ UNCHANGED <<heap, txQueue, stopPacket, track, command, packet,
                             ticks, curr, i, cached>>

(* ... then the start. *)
ResetStart == /\ pc = "resetStart"
              /\ SetAddresses([buf |-> cache.addresses.buf,
                               size |-> cache.addresses.size,
                               count |-> cache.addresses.count, start |-> 0])
              /\ i' = 0
              /\ pc' = "destroy"
              /\ UNCHANGED <<heap, txQueue, stopPacket, track, command, packet,
                             ticks, curr, cached>>

(* Hash_reset's loop: the packet of entry i is freed while the entry still *)
(* points at it, ...                                                       *)
DestroyEntry ==
  LET e == cache.packets.entries[i]
  IN  /\ pc = "destroy"
      /\ heap' = DCC_packet_destroy(heap, IF e = NULL THEN {} ELSE {e.v})
      /\ pc' = "nullify"
      /\ UNCHANGED <<cache, txQueue, stopPacket, track, command, packet, ticks,
                     curr, i, cached>>

(* Mutant: the loop ends one entry early. *)
NullifyAllButLast ==
  /\ pc = "nullify"
  /\ SetPackets(Hash_reset_entry(cache.packets, i))
  /\ i' = i + 1
  /\ pc' = IF i + 2 < cache.packets.size THEN "destroy" ELSE "print"
  /\ UNCHANGED <<heap, txQueue, stopPacket, track, command, packet, ticks, curr,
                 cached>>

(* ... and then no longer does. *)
NullifyEntry ==
  /\ pc = "nullify"
  /\ SetPackets(Hash_reset_entry(cache.packets, i))
  /\ i' = i + 1
  /\ pc' = IF i + 1 < cache.packets.size THEN "destroy" ELSE "print"
  /\ UNCHANGED <<heap, txQueue, stopPacket, track, command, packet, ticks, curr,
                 cached>>

(* "%d item(s) purged" *)
PrintPurged == /\ pc = "print"
               /\ pc' = "read"
               /\ command' = NoCommand
               /\ curr' = 0
               /\ i' = 0
               /\ UNCHANGED <<schedulerVars, packet, ticks, cached>>

-----------------------------------------------------------------------------
(* Sys_cmd_cache_show: the pointer is fetched, ... *)
LookUp == /\ pc = "lookup"
          /\ cached' = Cache_get(cache, command.loco)
          /\ pc' = "dump"
          /\ UNCHANGED <<schedulerVars, command, packet, ticks, curr, i>>

(* ... and what it points at is printed, over many interrupts. *)
Dump == /\ pc = "dump"
        /\ cached' = NULL
        /\ pc' = "read"
        /\ command' = NoCommand
        /\ UNCHANGED <<schedulerVars, packet, ticks, curr, i>>

-----------------------------------------------------------------------------
ReadCommand == \/ \E m \in Message : ReadPacket(m)
               \/ ReadRefused
               \/ ReadClear
               \/ \E l \in Loco : ReadShow(l)

Purge == ReportSize \/ ResetCount \/ ResetStart \/ DestroyEntry \/ NullifyEntry
         \/ PrintPurged

MainStep == BlinkDone \/ AddPacket \/ Purge \/ LookUp \/ Dump

(* The interrupt, whatever main is doing. *)
Tick == /\ Timer0
        /\ ticks' = IF pc = "blink" /\ ticks < BlinkTicks THEN ticks + 1 ELSE ticks
        /\ UNCHANGED <<pc, command, packet, curr, i, cached>>

StationNext == ReadCommand \/ MainStep \/ Tick

StationSpec == StationInit /\ [][StationNext]_vars

(* Timer0 never stops, and main runs between its interrupts; the operator  *)
(* need not say anything.                                                  *)
StationFairness == WF_vars(Tick) /\ WF_vars(MainStep)

FairStationSpec == StationSpec /\ StationFairness

-----------------------------------------------------------------------------
(* The phases of the two system commands that touch the cache. *)
SysPhases == {"report", "resetCount", "resetStart", "destroy", "nullify",
              "print", "lookup", "dump"}

Phases == {"read", "blink", "add"} \cup SysPhases

CommandTypes == {"none", "packet", "clear", "show"}

(* TYPE: every variable holds what its C declaration and use allow. *)
StationTypeOK ==
  /\ cache \in CacheOf(Loco, Block, CacheSize)
  /\ heap \in [Block -> Message \cup {Free, Lost}]
  /\ txQueue \in RingOf(Block \cup {NULL}, TxLen)
  /\ stopPacket \in Block \cup {NULL}
  /\ track \in Message \cup {Idle, NULL}
  /\ pc \in Phases
  /\ command \in [type : CommandTypes, loco : Loco \cup {NULL}]
  /\ packet \in Block \cup {NULL}
  /\ ticks \in 0 .. BlinkTicks
  /\ curr \in 0 .. CacheSize
  /\ i \in 0 .. CacheSize
  /\ cached \in Block \cup {NULL}

(* The transmit queue never holds a second packet, and holds none once a   *)
(* blink is over: Ring_push cannot overwrite a queued packet although      *)
(* Scheduler_add_packet never looks for room.                              *)
QueueShort == /\ txQueue.count \in {0, 1}
              /\ pc \in SysPhases \cup {"add"} => txQueue.count = 0

(* Each packet the parser hands to main is referred to from exactly one    *)
(* place - an entry of the cache, the queue, the stop packet, main's hand  *)
(* - so that what ISR and main destroy is never destroyed twice, used      *)
(* afterwards or lost.  What is lost is what the parser itself forgets.    *)
EntryPacket(j) == cache.packets.entries[j].v
Dangling == IF pc = "nullify" THEN HashUsed(cache.packets) \cap {i} ELSE {}
KeptEntries == HashUsed(cache.packets) \ Dangling
Kept == {EntryPacket(j) : j \in KeptEntries}
Queued == {RingSeq(txQueue)[j] : j \in 1 .. txQueue.count}
Single(p) == {p} \ {NULL}

LostBlocks == {b \in Block : heap[b] = Lost}
InUse == Allocated(heap) \ LostBlocks

OwnedOnce ==
  /\ InUse = Kept \cup Queued \cup Single(stopPacket) \cup Single(packet)
  /\ \A j, k \in KeptEntries : EntryPacket(j) = EntryPacket(k) => j = k
  /\ Kept \cap Queued = {}
  /\ (Kept \cup Queued) \cap Single(stopPacket) = {}
  /\ (Kept \cup Queued \cup Single(stopPacket)) \cap Single(packet) = {}

(* The heap the station needs: whenever the parser starts, what is in use  *)
(* leaves it one of CacheSize + 2 blocks.  A longer history takes no more; *)
(* what does is a line with two commands, which the parser loses a packet  *)
(* over every time, and for such lines no heap is large enough.            *)
InUseBounded == pc = "read" => Cardinality(InUse) <= CacheSize + 1

(* While a broadcast stop is in force no command from before it is kept:   *)
(* what ends the stop cannot bring an old command back to the track.       *)
StopForgets == stopPacket # NULL => Kept = {} /\ Rota(cache) = <<>>

(* cache clear says how many packets it destroys: the size it reads before *)
(* is still the number of packets when the reset starts, interrupts or no, *)
(* and when it prints the cache is empty.                                  *)
PurgeIsExact ==
  /\ pc = "resetCount" => curr = Cardinality(HashUsed(cache.packets))
  /\ pc = "print" => HashUsed(cache.packets) = {} /\ Rota(cache) = <<>>

(* The packet cache show prints is the loco's own and stays in the cache   *)
(* until the last byte of it is printed, interrupts on.                    *)
DumpIsStable ==
  pc = "dump" => /\ cached = Cache_get(cache, command.loco)
                 /\ cached # NULL => heap[cached] \notin {Free, Lost}
                                     /\ heap[cached].loco = command.loco

-----------------------------------------------------------------------------
(* Once a broadcast stop is on the track, it stays there until another     *)
(* command is queued, whatever main and the cache do meanwhile.            *)
StopHolds ==
  [][(track \in Stop /\ txQueue.count = 0) => track' = track]_vars

(* While main empties or shows the cache, no interrupt allocates, frees or *)
(* replaces a packet: the commands need no cli().                          *)
SysCommandsAlone ==
  [][(pc \in SysPhases /\ pc' = pc)
       => heap' = heap /\ cache.packets' = cache.packets]_vars

(* What the track sees is what RefreshPolicy says, with the emptying of    *)
(* the cache taking effect at once, when Ring_reset zeroes the count.      *)
InRota(l) == \E j \in 1 .. Len(Rota(cache)) : Rota(cache)[j] = l
CmdOf(l) == heap[Cache_get(cache, l)].cmd
Content(p) == IF p = NULL THEN NULL ELSE heap[p]

Policy == INSTANCE RefreshPolicy
            WITH None <- NULL,
                 last <- [l \in Loco |-> IF InRota(l) THEN CmdOf(l) ELSE NULL],
                 rota <- Rota(cache),
                 served <- IF track = Idle THEN NULL ELSE track,
                 pending <- IF txQueue.count = 0 THEN NULL
                            ELSE Content(Ring_front(txQueue)),
                 halted <- Content(stopPacket)

ImplementsPolicy == Policy!PolicySpec

(* Every packet main hands over is sent. *)
PacketReachesTrack ==
  \A m \in Message : (pc = "add" /\ heap[packet] = m) ~> track = m

(* The last command of every cached loco is sent again and again, however  *)
(* fast new commands for other locos come in, until it gets another or the *)
(* cache is emptied: no loco drops out of the turns.                       *)
KeptAs(l, c) == \E j \in KeptEntries : /\ cache.packets.entries[j].k = l
                                       /\ heap[EntryPacket(j)].cmd = c

LocosRefreshed ==
  \A l \in Loco, c \in Cmd :
    KeptAs(l, c) ~> (track = [loco |-> l, cmd |-> c] \/ ~ KeptAs(l, c))

=============================================================================
