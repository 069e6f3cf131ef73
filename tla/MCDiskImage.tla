------------------------------ MODULE MCDiskImage ------------------------------
(* The disks that the README of the program names, as TLC checks them. *)
EXTENDS DiskImage, TLC

CONSTANTS f, g

\* On a DOS disk in an order that is not the one read, f is where g should be.
Homes == f :> 3 @@ g :> 12

D(system, format, layout, sectors, ext, header) ==
  [system |-> system, format |-> format, layout |-> layout, sectors |-> sectors,
   ext |-> ext, header |-> header, boot |-> "NONE"]

\* The same disk with the boot sector of a system.
Booting(boot, disks) == {[d EXCEPT !.boot = boot] : d \in disks}

Extensions == {"dsk", "po", "do"}

OfProDOS ==
  {D("ProDOS", "PRODOS", l, Sectors140K, e, NoHeader) :
     l \in {"DOS33", "DOS33Alt", "ProDOS", "Linear"}, e \in Extensions}
  \cup {D("ProDOS", "PRODOS", "Linear", Sectors140K, "dsk", [order |-> "prodos", blocks |-> 280])}
  \cup {D("ProDOS", "PRODOS_800", "Linear", Sectors800K, e, h) :
          e \in Extensions, h \in {NoHeader, [order |-> "prodos", blocks |-> 1600]}}
  \cup {D("ProDOS", "PRODOS_400", "Linear", Sectors400K, "dsk", h) :
          h \in {NoHeader, [order |-> "prodos", blocks |-> 800]}}

OfDOS32 == {D("DOS", "DOS_13", "DOS33", Sectors113K, e, NoHeader) : e \in Extensions}
OfDOS33 == {D("DOS", "DOS_16", "DOS33", Sectors140K, e, NoHeader) : e \in Extensions}

OfDOS ==
  OfDOS32 \cup OfDOS33
  \cup {D("DOS", "DOS_16", l, Sectors140K, e, NoHeader) :
          l \in {"DOS33Alt", "DiversiDOS"}, e \in Extensions}
  \cup {D("DOS", "DOS_16", "DOS33", Sectors140K, "dsk", [order |-> "dos", blocks |-> 280])}
  \cup {D("DOS", "DOS_16", "DOS33", SectorsNIB, "dsk", NoHeader)}

OfOthers ==
  {D("Pascal", "PASCAL", l, Sectors140K, e, NoHeader) : l \in {"DOS33", "Linear"}, e \in Extensions}
  \cup {D("RDOS", "RDOS_3", "DOS33Alt", Sectors140K, "dsk", NoHeader),
        D("RDOS", "RDOS_33", "ProDOS", Sectors140K, "dsk", NoHeader),
        D("RDOS", "RDOS_32", "DOS33Alt", Sectors113K, "dsk", NoHeader)}

\* Disks with the boot sector of their own system, or of another one.
WithBoot ==
  Booting("DOS_13", OfDOS32) \cup Booting("DOS_16", OfDOS33) \cup Booting("PRODOS", OfDOS33)
  \cup Booting("PRODOS", {d \in OfProDOS : d.ext = "dsk"})
  \cup Booting("DOS_16", {d \in OfOthers : d.system = "Pascal"})

AllDisks == OfProDOS \cup OfDOS \cup OfOthers \cup WithBoot
==============================================================================
