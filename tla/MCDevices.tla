----------------------------- MODULE MCDevices -----------------------------
(***************************************************************************)
(* The devices side by side: in each behaviour one of them is at work and  *)
(* the others stay as they are.                                            *)
(***************************************************************************)
EXTENDS TLC, Serial, Ide, Terminal

VARIABLE device   \* the device at work; it never changes

mcLoads == {<<4, 0>>, <<1, 3>>}
mcPartitions == {[disk |-> 0, start |-> 0, size |-> 1], [disk |-> 0, start |-> 1, size |-> 1],
                 [disk |-> 1, start |-> 1, size |-> 1]}
mcKeys == {LShift, RShift, RAlt, LCtrl, CapsLock, GreyDel} \cup OrdinaryKeys

\* Disks with a table in sector 0 and in one further sector.
mcEntries == [kind : Kinds, offset : {1, 2, 7}, size : {1, 2, 7}]
mcTables == {NoTable} \cup {<<e>> : e \in mcEntries}
              \cup {<<e, f>> : e \in mcEntries, f \in {e \in mcEntries : e.kind = "extended"}}
mcLayouts == {[size |-> n, table |-> 0 :> t @@ 2 :> u] : n \in {3, 5}, t \in mcTables, u \in {NoTable}}

DevicesInit ==
  /\ SerialInit /\ IdeInit /\ KbdInit /\ VgaInit
  /\ device \in {"serial", "ide", "keyboard", "vga", "partition"}
  /\ PartitionInit
  /\ device # "serial" => out = 4
  /\ device # "partition" => disk = CHOOSE d \in Layouts : TRUE

DevicesNext ==
  /\ UNCHANGED device
  /\ \/ device = "serial" /\ SerialNext
          /\ UNCHANGED <<ideVars, kbdVars, vgaVars, partitionVars>>
     \/ device = "ide" /\ IdeNext
          /\ UNCHANGED <<serialVars, kbdVars, vgaVars, partitionVars>>
     \/ device = "keyboard" /\ KbdNext
          /\ UNCHANGED <<serialVars, ideVars, vgaVars, partitionVars>>
     \/ device = "vga" /\ VgaNext
          /\ UNCHANGED <<serialVars, ideVars, kbdVars, partitionVars>>
     \/ device = "partition" /\ PartitionNext
          /\ UNCHANGED <<serialVars, ideVars, kbdVars, vgaVars>>

DevicesSpec ==
  /\ DevicesInit
  /\ [][DevicesNext]_<<device, serialVars, ideVars, kbdVars, vgaVars, partitionVars>>
  /\ SerialFairness /\ IdeFairness
-----------------------------------------------------------------------------
\* Interrupts keep coming and are waited for: nobody waits for a device for good (intq.c,
\* serial.c, ide.c).
DevicesServe == CharsServed /\ ChannelReleased
=============================================================================
