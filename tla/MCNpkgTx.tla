------------------------------ MODULE MCNpkgTx ------------------------------
(* A small archive: a library in two versions, a substitute for it that    *)
(* carries the same capability and clashes with the second version, and an *)
(* application that needs the library by name and by capability.  The link *)
(* of the editor lies where two packages have a file, and a file of the    *)
(* substitute where the application has a directory.                       *)
EXTENDS NpkgTx

CONSTANTS lib, app, sub, lib1, lib2, app1, sub1,
          fa, fb, fc, fd, fe, fg, fs, so, editor

MCNames  == {lib, app, sub}
MCPaths  == {fa, fb, fc, fd, fe, fg, fs}
MCCaps   == {so}
MCAlts   == {editor}
MCBuilds == {lib1, lib2, app1, sub1}

Of(l1, l2, a1, s1) ==
  [b \in MCBuilds |-> CASE b = lib1 -> l1 [] b = lib2 -> l2 [] b = app1 -> a1 [] OTHER -> s1]

MCName         == Of(lib, lib, app, sub)
MCFiles        == Of({fa, fb}, {fa, fc}, {fd, fe}, {fc, fg})
MCDepends      == Of({}, {}, {lib, so}, {})
MCCarries      == Of({so}, {}, {}, {so})
MCConflicts    == Of({}, {}, {}, {lib1})
MCAlternatives == Of({}, {editor}, {editor}, {})
MCBinary       == Of(fa, fa, fd, fc)
MCPriority     == Of(0, 1, 2, 0)
MCSlot         == [a \in MCAlts |-> fs]
MCLink         == [a \in MCAlts |-> fc]
MCBelow        == [f \in MCPaths |-> IF f = fg THEN {fd} ELSE {}]
MCDirLinks     == {fe}
MCDeadLinks    == {fb}
MCCritical     == {sub}
MCNothing      == {}
=============================================================================
