----------------------------- MODULE MCRelease -----------------------------
(***************************************************************************)
(* Instances of Release for TLC: two chips on one arch, one with a driver. *)
(***************************************************************************)
EXTENDS ReleaseClaims, TLC

V(a, b, c) == Plain(a, b, c)
Dated == [V(1, 0, 0) EXCEPT !.suffix = "date"]

MCInherits == [c \in Chip |-> IF c = "chip1" THEN Base ELSE {"arch"}]
MCUses     == [c \in Chip |-> IF c = "chip1" THEN Driver \cup Soc ELSE {}]

FirstManifests ==
    [f \in Folder |-> IF f = "toolchain" THEN Dated
                      ELSE IF f \in Soc \cup {"new"} THEN Absent
                      ELSE V(1, 0, 0)]

MCFirstTree ==
    [manifest |-> FirstManifests, code |-> [f \in Folder |-> 0],
     reg |-> [version |-> V(1, 0, 0), entry |-> FirstManifests, ecosystem |-> Source]]

MCNewVersion == V(1, 0, 0)

Changed(listed) == [Untouched EXCEPT !.files = {"changed"}, !.listed = listed]
Files(kinds)    == [Untouched EXCEPT !.files = kinds]
Declares(what)  == [Untouched EXCEPT !.manifest = what]

Only(f, edit) == [[g \in Folder |-> Untouched] EXCEPT ![f] = edit]
Both(f, e1, g, e2) == [Only(f, e1) EXCEPT ![g] = e2]

Gone == [files |-> {"removed"}, listed |-> FALSE, manifest |-> "gone"]
New  == [files |-> {"added"}, listed |-> FALSE, manifest |-> "new"]

\* Code of a dependency of both chips, of one of them, of a chip; forgotten
\* and declared bumps of all three levels, alone and against each other; new
\* and removed folders, one of which breaks the build; a push that starts no
\* run.
MCPushes ==
    {Only("arch", Changed(FALSE)),
     Both("arch", Files({"removed", "changed"}), "chip1", Declares("patch")),
     Both("arch", Changed(FALSE), "chip1", Declares("major")),
     Both("chip1", Changed(FALSE), "toolchain", Declares("minor")),
     Both("chip2", Files({"added"}), "integration", Changed(FALSE)),
     Both("chip2", Gone, "integration", Declares("patch")),
     Both("driver", Changed(TRUE), "soc", Changed(FALSE)),
     Only("driver", Declares("major")),
     Only("driver", [Gone EXCEPT !.listed = TRUE]),
     Only("integration", Changed(FALSE)),
     Only("soc", Changed(TRUE)),
     Only("new", New),
     Only("new", Gone)}

\* Three releases, the middle one of a driver that no chip inherits.
TagPushes == {Only("driver", Changed(FALSE)), Only("chip2", Changed(FALSE))}
DriverPushes == {Only("driver", Declares("major"))}
=============================================================================
