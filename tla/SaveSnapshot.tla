---------------------------- MODULE SaveSnapshot ----------------------------
(***************************************************************************)
(* The read-only copy of a save that the client takes while the game may   *)
(* be writing it, and palbeacon inspect, which writes what is parsed from  *)
(* such a copy to two files.                                               *)
(*                                                                         *)
(* Files are compared by what lstat tells: a write gives a file a new      *)
(* content and the modification time of the clock, whose ticks are coarser *)
(* than writes; a rename gives it a new inode and any older time.          *)
(***************************************************************************)
EXTENDS Naturals, FiniteSets, FiniteSetsExt

CONSTANTS Files,       \* the names of Level.sav and of players' files, there or not yet
          Level,       \* Level.sav
          Delay,       \* ticks between the first and the second look
          MaxTime, MaxWrites   \* bounds: ticks of the clock, writes of the game

DelayAssumption == Delay \in Nat \ {0} /\ Level \in Files

VARIABLES now, disk,   \* the clock and the save directory
          writes,      \* bound on the game's writes
          at,          \* where createReadOnlySnapshot is
          listed,      \* the files found
          kept,        \* history: what is there since the listing began
          first, second,  \* what the first two looks saw
          todo,        \* files still to be listed, looked at or copied
          copy,        \* contents of the temporary directory
          cut,         \* history: the save when the second look was complete
          out          \* the two outputs of inspect

vars == <<now, disk, writes, at, listed, kept, first, second, todo, copy, cut, out>>
game == <<now, disk, writes>>

Absent == [there |-> FALSE, content |-> 0, mtime |-> 0, ino |-> 0]
Outputs == {"canonical", "payload"}
NoLook == [f \in {} |-> Absent]

Init ==
  /\ now = 1 /\ writes = 0
  /\ \E found \in SUBSET Files : disk = [f \in Files |-> [Absent EXCEPT !.there = f \in found]]
  /\ at = "idle" /\ listed = {} /\ kept = {} /\ todo = {}
  /\ first = NoLook /\ second = NoLook /\ copy = NoLook /\ cut = NoLook
  /\ out = [o \in Outputs |-> "absent"]

-----------------------------------------------------------------------------
\* The game.
Tick == /\ now < MaxTime /\ now' = now + 1
        /\ UNCHANGED <<disk, writes, at, listed, kept, first, second, todo, copy, cut, out>>

Change(f, row) ==
  /\ writes < MaxWrites /\ writes' = writes + 1
  /\ disk' = [disk EXCEPT ![f] = row]
  /\ kept' = {g \in kept : disk'[g].there}
  /\ UNCHANGED <<now, at, listed, first, second, todo, copy, cut, out>>

WriteInPlace(f) ==
  /\ disk[f].there
  /\ Change(f, [disk[f] EXCEPT !.content = writes + 1, !.mtime = now])

Replace(f) ==
  \E t \in 0..now :
    Change(f, [there |-> TRUE, content |-> writes + 1, mtime |-> t, ino |-> writes + 1])

Delete(f) == disk[f].there /\ Change(f, Absent)

-----------------------------------------------------------------------------
\* statFiles looks at the files one after the other.
Stat(f) == [mtime |-> disk[f].mtime, ino |-> disk[f].ino]

\* sourceFiles: Level.sav must be there, then come the entries of Players, one
\* after the other.
List ==
  /\ at = "idle" /\ disk[Level].there
  /\ at' = "list" /\ listed' = {Level} /\ todo' = Files \ {Level}
  /\ kept' = {f \in Files : disk[f].there}
  /\ copy' = NoLook /\ first' = NoLook /\ second' = NoLook /\ cut' = NoLook
  /\ UNCHANGED <<game, out>>

ListFile(f) ==
  /\ at = "list" /\ f \in todo
  /\ todo' = todo \ {f}
  /\ listed' = IF disk[f].there THEN listed \cup {f} ELSE listed
  /\ UNCHANGED <<game, at, kept, first, second, copy, cut, out>>

\* Mutation: an entry that is no save ends the listing.
EndOfListEarly ==
  /\ at = "list"
  /\ at' = "first" /\ todo' = listed
  /\ UNCHANGED <<game, listed, kept, first, second, copy, cut, out>>

EndOfList ==
  /\ at = "list" /\ todo = {}
  /\ at' = "first" /\ todo' = listed
  /\ UNCHANGED <<game, listed, kept, first, second, copy, cut, out>>

Extended(look, f, row) == [g \in DOMAIN look \cup {f} |-> IF g = f THEN row ELSE look[g]]

LookFirst(f) ==
  /\ at = "first" /\ f \in todo /\ disk[f].there
  /\ first' = Extended(first, f, Stat(f))
  /\ todo' = todo \ {f}
  /\ UNCHANGED <<game, at, listed, kept, second, copy, cut, out>>

\* Mutation: the second look follows the first at once.
NoPause ==
  /\ at = "first" /\ todo = {}
  /\ at' = "second" /\ todo' = listed
  /\ UNCHANGED <<game, listed, kept, first, second, copy, cut, out>>

\* The two looks are two seconds apart.
Pause ==
  /\ at = "first" /\ todo = {}
  /\ now + Delay <= MaxTime
  /\ now' = now + Delay
  /\ at' = "second" /\ todo' = listed
  /\ UNCHANGED <<disk, writes, listed, kept, first, second, copy, cut, out>>

LookSecond(f) ==
  /\ at = "second" /\ f \in todo /\ disk[f].there
  /\ second' = Extended(second, f, Stat(f))
  /\ todo' = todo \ {f}
  /\ UNCHANGED <<game, at, listed, kept, first, copy, cut, out>>

\* SAVE_SOURCE_UNSTABLE unless both looks saw the same.
Compare ==
  /\ at = "second" /\ todo = {}
  /\ first = second
  /\ at' = "copy" /\ todo' = listed
  /\ cut' = [f \in {g \in Files : disk[g].there} |-> disk[f].content]
  /\ UNCHANGED <<game, listed, kept, first, second, copy, out>>

Copy(f) ==
  /\ at = "copy" /\ f \in todo /\ disk[f].there
  /\ copy' = Extended(copy, f, disk[f].content)
  /\ todo' = todo \ {f}
  /\ UNCHANGED <<game, at, listed, kept, first, second, cut, out>>

\* The third look begins.
Recheck ==
  /\ at = "copy" /\ todo = {}
  /\ at' = "third" /\ todo' = listed
  /\ UNCHANGED <<game, listed, kept, first, second, copy, cut, out>>

LookThird(f) ==
  /\ at = "third" /\ f \in todo /\ disk[f].there
  /\ Stat(f) = second[f]
  /\ todo' = todo \ {f}
  /\ UNCHANGED <<game, at, listed, kept, first, second, copy, cut, out>>

\* The copies are hashed; the copy is complete.
Complete ==
  /\ at = "third" /\ todo = {}
  /\ at' = "complete"
  /\ UNCHANGED <<game, listed, kept, first, second, todo, copy, cut, out>>

\* Any file operation may fail, or a look differs: the temporary directory,
\* if it is there already, is removed, with whatever has been copied.
Fail ==
  /\ at \in {"list", "first", "second", "copy", "third"}
  /\ at' = "idle" /\ copy' = NoLook /\ todo' = {}
  /\ UNCHANGED <<game, listed, kept, first, second, cut, out>>

-----------------------------------------------------------------------------
\* The caller is done with the copy, or fails with it: cleanup.
Cleanup ==
  /\ at \in {"complete", "inspected"}
  /\ at' = "idle" /\ copy' = NoLook
  /\ UNCHANGED <<game, listed, kept, first, second, todo, cut, out>>

\* inspect has parsed the copy and writes the first output; an output that is
\* there is never overwritten.
WriteCanonical ==
  /\ at = "complete"
  /\ out["canonical"] = "absent"
  /\ out' = [out EXCEPT !["canonical"] = "whole"]
  /\ at' = "written"
  /\ UNCHANGED <<game, listed, kept, first, second, todo, copy, cut>>

\* Mutation: the second output is written over whatever is there.
WritePayloadOver ==
  /\ at = "written"
  /\ out' = [out EXCEPT !["payload"] = "whole"]
  /\ at' = "inspected"
  /\ UNCHANGED <<game, listed, kept, first, second, todo, copy, cut>>

WritePayload ==
  /\ at = "written"
  /\ out["payload"] = "absent"
  /\ out' = [out EXCEPT !["payload"] = "whole"]
  /\ at' = "inspected"
  /\ UNCHANGED <<game, listed, kept, first, second, todo, copy, cut>>

\* Mutation: the first output is left behind.
PayloadFailsAlone ==
  /\ at = "written"
  /\ at' = "inspected"
  /\ UNCHANGED <<game, listed, kept, first, second, todo, copy, cut, out>>

\* The second output cannot be created: somebody else has put a file there
\* meanwhile, or the file system refuses it.  The first is taken back.
PayloadFails ==
  /\ at = "written"
  /\ out' = [out EXCEPT !["canonical"] = "absent"]
  /\ at' = "inspected"
  /\ UNCHANGED <<game, listed, kept, first, second, todo, copy, cut>>

\* A file of somebody else appears at the path of an output.
Foreign(o) ==
  /\ out[o] = "absent"
  /\ out' = [out EXCEPT ![o] = "foreign"]
  /\ UNCHANGED <<game, at, listed, kept, first, second, todo, copy, cut>>

\* The user takes the outputs away before the next inspection.
Collect ==
  /\ at = "idle" /\ \E o \in Outputs : out[o] # "absent"
  /\ out' = [o \in Outputs |-> "absent"]
  /\ UNCHANGED <<game, at, listed, kept, first, second, todo, copy, cut>>

Look == \E f \in Files : ListFile(f) \/ LookFirst(f) \/ LookSecond(f) \/ LookThird(f) \/ Copy(f)

Inspect == WriteCanonical \/ WritePayload \/ PayloadFails \/ Collect
             \/ \E o \in Outputs : Foreign(o)

Next ==
  \/ Tick \/ \E f \in Files : WriteInPlace(f) \/ Replace(f) \/ Delete(f)
  \/ List \/ EndOfList \/ Look \/ Pause \/ Compare \/ Recheck \/ Complete \/ Fail \/ Cleanup
  \/ Inspect

Spec == Init /\ [][Next]_vars

-----------------------------------------------------------------------------
TypeOK ==
  /\ \A f \in Files : DOMAIN disk[f] = DOMAIN Absent
  /\ at \in {"idle", "list", "first", "second", "copy", "third", "complete", "written", "inspected"}
  /\ listed \subseteq Files /\ todo \subseteq IF at = "list" THEN Files ELSE listed
  /\ DOMAIN first \subseteq listed /\ DOMAIN second \subseteq listed /\ DOMAIN copy \subseteq listed
  /\ at \in {"complete", "written", "inspected"} => DOMAIN copy = listed
  /\ \A o \in Outputs : out[o] \in {"absent", "whole", "foreign"}

\* What is in a complete copy is as it was in the save at one moment: whatever
\* the game wrote to a listed file during the looks and the copying was noticed.
ConsistentCut == at = "complete" => \A f \in DOMAIN copy : f \in DOMAIN cut /\ copy[f] = cut[f]

\* It may lack what the save of that moment has: the files are listed once, and
\* nobody looks for those that come later.  What it lacks was not there when the
\* listing began, or not all the time since.
LeftOutIsNew == at = "complete" => kept \subseteq DOMAIN copy

\* After an inspection its two outputs are both there or none of them is, and
\* a file of somebody else is never touched.
BothOutputsOrNone ==
  at # "written" =>
    (out["canonical"] = "whole" <=> out["payload"] = "whole")

ForeignStays ==
  [][\A o \in Outputs : out[o] = "foreign" => out'[o] = "foreign" \/ at = "idle"]_vars

\* What inspect hands over is of the save at one moment, with every file that was
\* there from the listing on, or nothing.
SnapshotIsWhole == [](ConsistentCut /\ LeftOutIsNew /\ BothOutputsOrNone) /\ ForeignStays
=============================================================================
