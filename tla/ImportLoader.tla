---------------------------- MODULE ImportLoader ----------------------------
(***************************************************************************)
(* loader32.asm: the loader in the program walks the table of hashes and   *)
(* fills the jump table.                                                   *)
(*                                                                         *)
(* No loop of it has an end of its own: it compares hashes until one is    *)
(* equal, first in the symbols of dyld, then in the paths of the images    *)
(* that dyld has loaded, then in the symbols of the image.  That it stops, *)
(* and stops at the right entry, is up to the checks of the linker.  What  *)
(* lies behind a list is not modelled: no action reads there.              *)
(***************************************************************************)
EXTENDS ImportTable

VARIABLES
  images,   \* dyld's infoArray behind the program's own entry
  jump,     \* the jump table, zeroed memory at first
  slot,     \* ebx: the slot to be filled
  cell,     \* edi: the cell of the table
  count,    \* ecx: functions to come in this library
  lib,      \* ebp: the library
  entry,    \* edx: the entry of its symbols, or of the images
  lphase    \* where the loader is

lvars == <<images, jump, slot, cell, count, lib, entry, lphase>>

LTypeOK ==
  /\ images \in Seq(DOMAIN libs)
  /\ \A k \in DOMAIN jump : jump[k] \in Nat
  /\ slot \in Nat /\ cell \in Nat /\ count \in Nat /\ entry \in Nat
  /\ lib \in DOMAIN libs
  /\ lphase \in {"off", "browse", "functions", "group", "images", "calls", "restore", "done"}

LInit ==
  /\ images = <<>> /\ jump = <<>>
  /\ slot = 1 /\ cell = 1 /\ count = 0 /\ lib = 0 /\ entry = 1
  /\ lphase = "off"

\* dyld loads what the header names, with all that needs, in an order of its own.
\* Of dyld itself the loader is given the header and the slide.
Start ==
  /\ phase = "linked" /\ lphase = "off"
  /\ \E order \in [1 .. Cardinality(Loaded(used)) -> Loaded(used)] :
       IsInjective(order) /\ images' = order
  /\ jump' = [k \in 1 .. Len(lmap) |-> IF k = 1 THEN libs[0].slide ELSE 0]
  /\ count' = 1 /\ lib' = 0 /\ lphase' = "browse"
  /\ UNCHANGED <<ivars, slot, cell, entry>>

\* browse_mach_loop: the symbols of the library.
BrowseMach ==
  /\ lphase = "browse"
  /\ entry' = 1 /\ lphase' = "functions"
  /\ UNCHANGED <<ivars, images, jump, slot, cell, count, lib>>

Symbol == libs[lib].nlist[entry]
InTable == cell \in DOMAIN table /\ slot \in DOMAIN jump
SymbolFits == InTable /\ entry \in DOMAIN libs[lib].nlist
ImageFits == cell \in DOMAIN table /\ entry \in DOMAIN images

\* browse_lib: another symbol.
NextSymbol ==
  /\ lphase = "functions" /\ SymbolFits
  /\ program.hash[Symbol.name] # table[cell]
  /\ entry' = entry + 1
  /\ UNCHANGED <<ivars, images, jump, slot, cell, count, lib, lphase>>

\* The address is added to the slot; the next search starts from the front.
FoundSymbol ==
  /\ lphase = "functions" /\ SymbolFits
  /\ program.hash[Symbol.name] = table[cell]
  /\ jump' = [jump EXCEPT ![slot] = @ + Symbol.addr]
  /\ slot' = slot + 1 /\ cell' = cell + 1 /\ count' = count - 1
  /\ entry' = 1
  /\ lphase' = IF count = 1 THEN "group" ELSE "functions"
  /\ UNCHANGED <<ivars, images, lib>>

\* What the first slot has to hold for the list of images to be found.
InfosAddress ==
  LET infos == CHOOSE k \in DOMAIN libs[0].nlist :
                 libs[0].nlist[k].name = InfosName /\ libs[0].nlist[k].addr # 0
  IN  libs[0].nlist[infos].addr + libs[0].slide

\* The count is exchanged with the zero in al; zero ends the table.
NextGroup ==
  /\ lphase = "group"
  /\ cell \in DOMAIN table /\ jump[1] = InfosAddress
  /\ count' = table[cell]
  /\ table' = [table EXCEPT ![cell] = 0]
  /\ cell' = cell + 1
  /\ entry' = 1
  /\ lphase' = IF table[cell] # 0 THEN "images"
               ELSE IF program.absolute THEN "calls" ELSE "done"
  /\ UNCHANGED <<program, lmap, next, mapvars, phase>>
  /\ UNCHANGED <<images, jump, slot, lib>>

NextImage ==
  /\ lphase = "images" /\ ImageFits
  /\ libs[images[entry]].hash # table[cell]
  /\ entry' = entry + 1
  /\ UNCHANGED <<ivars, images, jump, slot, cell, count, lib, lphase>>

FoundImage ==
  /\ lphase = "images" /\ ImageFits
  /\ libs[images[entry]].hash = table[cell]
  /\ lib' = images[entry] /\ cell' = cell + 1 /\ lphase' = "browse"
  /\ UNCHANGED <<ivars, images, jump, slot, count, entry>>

LNext ==
  \/ Start \/ BrowseMach
  \/ NextSymbol \/ FoundSymbol
  \/ NextGroup \/ NextImage \/ FoundImage

-----------------------------------------------------------------------------
(* Properties.                                                             *)

\* When the program starts, every symbol it does not define itself is an address
\* of that name, dyld's for the list of images and a library's for all others:
\* whatever the hashes are, a program that would call something else has been
\* refused.
BoundRight ==
  lphase = "done" =>
    \A n \in DOMAIN Symbols :
      LET s == Symbols[n]
      IN  Imported(s) =>
            jump[SlotOf(s.name)] \in
              {Func(f).addr + libs[f.lib].slide :
                 f \in Matches([s EXCEPT !.isdyld = (s.name = InfosName)])}
=============================================================================
