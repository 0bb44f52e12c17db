----------------------------- MODULE StackSlots -----------------------------
(***************************************************************************)
(* The frame of a function: stack slots in units of four bytes.            *)
(*                                                                         *)
(* Instruction selection gives slots to the constant-size allocs of the    *)
(* start block, one pass for each alignment (src/amd64/isel.c; the loop in *)
(* src/rv64/isel.c is the same, the one in src/arm64/isel.c has no test    *)
(* for "alloc too large"); the spiller packs behind them, on               *)
(* demand, the slots of the temporaries it spills (slot() in src/spill.c)  *)
(* and pads the frame; the emitter turns a slot into an offset from the    *)
(* frame pointer (slot() and framesz() in src/amd64/emit.c).               *)
(*                                                                         *)
(* Slots are mathematical integers: the 29 bits a reference keeps of one   *)
(* (SLOT in src/all.h) and int overflow are left out.                      *)
(***************************************************************************)
EXTENDS Integers, FiniteSets, TLC

CONSTANTS
  Locals,    \* results of the allocs of the start block
  Temps,     \* temporaries the spiller may spill
  Wide,      \* those of a 64-bit class
  Sizes,     \* sizes in bytes the allocs ask for
  IntMax,    \* INT_MAX
  Vararg     \* whether the function is variadic

ASSUME SlotAssumption ==
  /\ Locals \cap Temps = {} /\ Wide \subseteq Temps
  /\ Sizes \subseteq Int /\ IntMax \in Nat /\ Vararg \in BOOLEAN

VARIABLES
  phase,     \* "isel", "spill", "done" or "dead"
  al,        \* the alignment of the current pass, in bytes
  fnslot,    \* fn->slot
  slot,      \* tmp[t].slot: -1 for unset
  len,       \* how many units the code that uses the slot touches
  align,     \* alignment asked for, in units
  slot4,     \* next slot of 4 bytes
  slot8,     \* next slot of 8 bytes
  locs       \* units used by the locals

slotVars == <<phase, al, fnslot, slot, len, align, slot4, slot8, locs>>

All == Locals \cup Temps
Unset == -1
Has(t) == slot[t] # Unset

SlotInit ==
  /\ phase = "isel" /\ al = 4 /\ fnslot = 0
  /\ slot = [t \in All |-> Unset]
  /\ len = [t \in All |-> IF t \in Wide THEN 2 ELSE IF t \in Temps THEN 1 ELSE 0]
  /\ align = [t \in All |-> IF t \in Wide THEN 2 ELSE 1]
  /\ slot4 = 0 /\ slot8 = 0 /\ locs = 0

-----------------------------------------------------------------------------
(* Units that an alloc of sz bytes takes in the current pass.              *)
Units(sz) == ((sz + al - 1) \div al) * (al \div 4)

(* An alloc of the alignment of the pass, anywhere in the start block.     *)
FastAlloc(t, sz) ==
  /\ phase = "isel" /\ ~Has(t)
  /\ sz >= 0 /\ sz < IntMax - 15
  /\ Units(sz) <= IntMax - fnslot
  /\ slot' = [slot EXCEPT ![t] = fnslot]
  /\ len' = [len EXCEPT ![t] = Units(sz)]
  /\ align' = [align EXCEPT ![t] = al \div 4]
  /\ fnslot' = fnslot + Units(sz)
  /\ UNCHANGED <<phase, al, slot4, slot8, locs>>

(* "invalid alloc size" and "alloc too large".                             *)
FastAllocFails(t, sz) ==
  /\ phase = "isel" /\ ~Has(t)
  /\ \/ sz < 0 \/ sz >= IntMax - 15
     \/ Units(sz) > IntMax - fnslot
  /\ phase' = "dead"
  /\ UNCHANGED <<al, fnslot, slot, len, align, slot4, slot8, locs>>

(* The loop over the block ends, or breaks at an alloc of no constant size *)
(* and leaves the later ones of the pass to run-time allocation.           *)
NextPass ==
  /\ phase = "isel" /\ al < 16
  /\ al' = 2 * al
  /\ UNCHANGED <<phase, fnslot, slot, len, align, slot4, slot8, locs>>

(* Mutant of Spill: the slots of the locals are forgotten.                 *)
SpillForgetsLocals ==
  /\ phase = "isel" /\ al = 16
  /\ phase' = "spill" /\ locs' = 0 /\ slot4' = 0 /\ slot8' = 0
  /\ UNCHANGED <<al, fnslot, slot, len, align>>

(* qbe_spill begins.                                                       *)
Spill ==
  /\ phase = "isel" /\ al = 16
  /\ phase' = "spill" /\ locs' = fnslot /\ slot4' = 0 /\ slot8' = 0
  /\ UNCHANGED <<al, fnslot, slot, len, align>>

(* Mutant of SlotWide: the hole is taken to be where it was.               *)
SlotWideKeepsHole(t) ==
  /\ phase = "spill" /\ ~Has(t) /\ t \in Wide
  /\ slot' = [slot EXCEPT ![t] = locs + slot8]
  /\ slot8' = slot8 + 2
  /\ UNCHANGED <<phase, al, fnslot, len, align, slot4, locs>>

(* slot(t), for a temporary that has none yet.                             *)
SlotWide(t) ==
  /\ phase = "spill" /\ ~Has(t) /\ t \in Wide
  /\ slot' = [slot EXCEPT ![t] = locs + slot8]
  /\ slot4' = IF slot4 = slot8 THEN slot4 + 2 ELSE slot4
  /\ slot8' = slot8 + 2
  /\ UNCHANGED <<phase, al, fnslot, len, align, locs>>

SlotNarrow(t) ==
  /\ phase = "spill" /\ ~Has(t) /\ t \notin Wide
  /\ slot' = [slot EXCEPT ![t] = locs + slot4]
  /\ IF slot4 = slot8
     THEN slot8' = slot8 + 2 /\ slot4' = slot4 + 1
     ELSE slot4' = slot8 /\ slot8' = slot8
  /\ UNCHANGED <<phase, al, fnslot, len, align, locs>>

(* Mutant of FrameEnd: the frame is not padded.                            *)
FrameEndUnpadded ==
  /\ phase = "spill"
  /\ phase' = "done" /\ fnslot' = fnslot + slot8
  /\ UNCHANGED <<al, slot, len, align, slot4, slot8, locs>>

(* The end of qbe_spill: slot8 += slot8 & 3; fn->slot += slot8.            *)
FrameEnd ==
  /\ phase = "spill"
  /\ phase' = "done"
  /\ slot8' = slot8 + (slot8 % 4)
  /\ fnslot' = fnslot + slot8'
  /\ UNCHANGED <<al, slot, len, align, slot4, locs>>

SlotNext ==
  \/ \E t \in Locals, sz \in Sizes : FastAlloc(t, sz) \/ FastAllocFails(t, sz)
  \/ NextPass
  \/ Spill
  \/ \E t \in Temps : SlotWide(t) \/ SlotNarrow(t)
  \/ FrameEnd

SlotSpec == SlotInit /\ [][SlotNext]_slotVars

-----------------------------------------------------------------------------
(* Emission: the offset of a slot from the frame pointer, and the bytes    *)
(* that the prologue reserves below it.                                    *)
SaveArea == IF Vararg THEN 176 ELSE 0

SlotOffset(s) == -SaveArea - 4 * (fnslot - s)
framesz == 4 * (((fnslot + 3) \div 4) * 4) + SaveArea

TypeOK ==
  /\ phase \in {"isel", "spill", "done", "dead"}
  /\ al \in {4, 8, 16}
  /\ fnslot \in Nat /\ locs \in Nat /\ slot4 \in Nat /\ slot8 \in Nat
  /\ slot \in [All -> Nat \cup {Unset}]
  /\ len \in [All -> Nat] /\ align \in [All -> {1, 2, 4}]

(* No two values that live in the frame share a unit of it, locals and     *)
(* spilled temporaries alike, in whatever order they asked for a slot.     *)
NoOverlap ==
  \A t, u \in All :
    t # u /\ Has(t) /\ Has(u) =>
      slot[t] + len[t] <= slot[u] \/ slot[u] + len[u] <= slot[t]

(* The comment of slot(), in whatever order wide and narrow temporaries    *)
(* ask: slot4 <= slot8, and of the units below slot8 there is at most one  *)
(* that no spilled temporary has, the one slot4 points to.                 *)
Taken(n) == \E t \in Temps : Has(t) /\ n \in slot[t] - locs .. slot[t] - locs + len[t] - 1

OneHole ==
  phase = "spill" =>
    /\ slot4 <= slot8
    /\ \A n \in 0 .. slot8 - 1 : ~Taken(n) <=> n = slot4

(* In the finished frame, every value is aligned as its alloc or its class *)
(* asks, the frame pointer being a multiple of 16.  Slots count from the   *)
(* low end, offsets from the high end: what is allocated later must keep   *)
(* the alignment of what was allocated before.  Every value lies inside    *)
(* the bytes the prologue reserves and outside the register save area of a *)
(* variadic function.                                                      *)
Framed ==
  phase = "done" =>
    \A t \in All : Has(t) =>
      /\ SlotOffset(slot[t]) % (4 * align[t]) = 0
      /\ SlotOffset(slot[t]) >= -framesz
      /\ SlotOffset(slot[t]) + 4 * len[t] <= -SaveArea

(* Locals differ by nothing but the sizes they ask for, temporaries by     *)
(* their class.                                                            *)
Symmetry == Permutations(Locals) \cup Permutations(Temps \ Wide) \cup Permutations(Wide)
=============================================================================
