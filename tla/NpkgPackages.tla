---------------------------- MODULE NpkgPackages -----------------------------
(***************************************************************************)
(* How a package of another distribution becomes an entry of an index      *)
(* (src/pkg/npkg_convert.py, npkg_rpm.py, npkg_elf.py).  A Debian clause   *)
(* is its sequence of alternatives, each [name, op, epoch, ver, any]; a    *)
(* version is [epoch, up, rev] with rev <<>> where none is named.  An      *)
(* entry's whole keeps the version unsplit, for reference only; no         *)
(* upstream version here has a dash of its own.  A file is its path and,   *)
(* when it is ELF, what names the library.                                 *)
(***************************************************************************)
EXTENDS NpkgVersions, FiniteSets, SequencesExt

\* strip_epoch, and the split at the last dash: what has no revision is
\* given the release 1.
Upstream(v) == v.up
Release(v) == IF v.rev = <<>> THEN <<<<0, 1>>>> ELSE v.rev

\* The first of the alternatives is kept, and no epoch.
deb_requirements(clauses) ==
  [i \in DOMAIN clauses |->
     LET r == Head(clauses[i])
     IN [name |-> r.name, op |-> r.op, ver |-> r.ver, any |-> r.any]]

\* Pre-Depends merge into the dependencies.
convert_deb(c) ==
  [name |-> c.package, version |-> Upstream(c.version), release |-> Release(c.version),
   depends |-> deb_requirements(c.pre_depends \o c.depends),
   provides |-> deb_requirements(c.provides), files |-> c.files,
   whole |-> Version(c.version.up, c.version.rev)]

\* What the packaging system asks of itself is dropped, versions and the
\* decorations of a soname are stripped, and a name is kept once.
rpm_requirements(values) ==
  LET kept == SelectSeq(values, LAMBDA v : ~v.internal)
      new == {i \in DOMAIN kept : \A j \in 1 .. i - 1 : kept[j].head # kept[i].head}
      at == SetToSortSeq(new, <)
  IN [i \in DOMAIN at |-> Need(kept[at[i]].head)]

\* Of the release only the leading digits are kept.
convert_rpm(tags) ==
  LET release == IF tags.release[1][1] = 0 THEN <<tags.release[1]>> ELSE <<<<0, 1>>>>
  IN [name |-> tags.name, version |-> tags.version, release |-> release,
      depends |-> rpm_requirements(tags.requires),
      provides |-> rpm_requirements(tags.provides), files |-> tags.files,
      whole |-> Version(tags.version, release)]

\* The libraries a package's files are: by their soname, or by their own
\* name where they carry none.  A link is not looked into.
scan(files) ==
  {IF f.soname # "" THEN f.soname ELSE f.base :
     f \in {g \in files : g.elf /\ (g.soname # "" \/ g.so)}}
=============================================================================
