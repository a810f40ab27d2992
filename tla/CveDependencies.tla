--------------------------- MODULE CveDependencies ---------------------------
(***************************************************************************)
(* The dependencies that security/cve_scanner.py reads from the files of   *)
(* the repository: install_requires of every setup.py, every Cargo.lock    *)
(* and every package.xml.  Pure operators; CveScanner is the scan.         *)
(*                                                                         *)
(* A repository is a record of three sequences of files, in the order in   *)
(* which rglob finds them.  A file that cannot be read or parsed is        *)
(* "readable = FALSE" and is skipped; what it holds is in "items":         *)
(*   setup.py     [name, constraints], the versions of its constraints     *)
(*   Cargo.lock   [name, version], "" if the block has none                *)
(*   package.xml  [tag, name], in the order of the file                    *)
(***************************************************************************)
EXTENDS Naturals, SequencesExt

CONSTANT Normal   \* name.lower().replace("-", "_"), for the names it changes

InternalPackages == {"schunk_fts_driver", "schunk_fts_library", "schunk_fts_interfaces",
                     "schunk_fts_dummy"}

\* The names of the internal packages are normalised.
ASSUME NormalAssumption == DOMAIN Normal \cap InternalPackages = {}

BuildToolPackages ==
  {"ament_cmake", "ament_cmake_pytest", "ament_cmake_copyright", "ament_lint_auto",
   "ament_lint_common", "ament_copyright", "rosidl_default_generators",
   "rosidl_default_runtime", "launch_pytest", "python3-pytest"}

RosUpstreamRepos ==
  [geometry_msgs |-> "ros2/common_interfaces", std_srvs |-> "ros2/common_interfaces",
   sensor_msgs |-> "ros2/common_interfaces", diagnostic_msgs |-> "ros2/common_interfaces",
   std_msgs |-> "ros2/common_interfaces", rclpy |-> "ros2/rclpy", launch |-> "ros2/launch",
   launch_ros |-> "ros2/launch_ros", example_interfaces |-> "ros2/example_interfaces"]

DepTags == <<"depend", "build_depend", "buildtool_depend", "exec_depend", "run_depend",
             "test_depend">>

Normalised(name) == IF name \in DOMAIN Normal THEN Normal[name] ELSE name

\* A requirement is looked up with the first version that it names.
NoVersion == ""
FirstVersion(requirement) ==
  IF requirement.constraints = <<>> THEN NoVersion ELSE Head(requirement.constraints)

NoRepo == ""
Dep(ecosystem, name, version, repo) ==
  [ecosystem |-> ecosystem, name |-> name, version |-> version, upstream |-> repo]

-----------------------------------------------------------------------------
\* The elements of seq at these places, in their order.
Keep(seq, places) ==
  LET Kept[n \in 0..Len(seq)] ==
        IF n = 0 THEN <<>>
        ELSE IF n \in places THEN Append(Kept[n - 1], seq[n])
        ELSE Kept[n - 1]
  IN Kept[Len(seq)]

\* The first element of each key: the "seen" sets.
KeepFirst(seq, key) == Keep(seq, {n \in DOMAIN seq : \A m \in 1..(n - 1) : key[m] # key[n]})

\* The items of the files that can be read.
Items(files) == FlattenSeq([f \in DOMAIN files |->
                              IF files[f].readable THEN files[f].items ELSE <<>>])

SetupKeyByName(dep) == Normalised(dep.name)   \* mutant: versions are not told apart
SetupKey(dep) == <<Normalised(dep.name), dep.version>>

SetupPyDeps(files) ==
  LET items == Items(files)
      all == [n \in DOMAIN items |-> Dep("PyPI", items[n].name, FirstVersion(items[n]), NoRepo)]
      new == KeepFirst(all, [n \in DOMAIN all |-> SetupKey(all[n])])
      internal == {Normalised(p) : p \in InternalPackages}
  IN Keep(new, {n \in DOMAIN new : Normalised(new[n].name) \notin internal})

CargoLockDeps(files) ==
  LET items == Items(files)
      full == Keep(items, {n \in DOMAIN items : items[n].version # NoVersion})
      all == [n \in DOMAIN full |-> Dep("crates.io", full[n].name, full[n].version, NoRepo)]
      new == KeepFirst(all, [n \in DOMAIN all |-> <<all[n].name, all[n].version>>])
  IN Keep(new, {n \in DOMAIN new : new[n].name \notin InternalPackages})

\* The elements of a file are taken tag by tag.
ByTag(items) ==
  FlattenSeq([t \in DOMAIN DepTags |->
                Keep(items, {n \in DOMAIN items : items[n].tag = DepTags[t]})])

Upstream(name) == IF name \in DOMAIN RosUpstreamRepos THEN RosUpstreamRepos[name] ELSE NoRepo

PackageXmlDeps(files) ==
  LET items == Items([f \in DOMAIN files |-> [files[f] EXCEPT !.items = ByTag(@)]])
      others == InternalPackages \cup BuildToolPackages \cup {""}
      scanned == Keep(items, {n \in DOMAIN items : items[n].name \notin others})
      all == [n \in DOMAIN scanned |-> Dep("ROS", scanned[n].name, NoVersion, Upstream(scanned[n].name))]
  IN KeepFirst(all, [n \in DOMAIN all |-> all[n].name])

DeduplicateDeps(deps) ==
  KeepFirst(deps, [i \in DOMAIN deps |-> <<deps[i].ecosystem, deps[i].name, deps[i].version>>])

AllDeps(repository) ==
  DeduplicateDeps(SetupPyDeps(repository.setup) \o CargoLockDeps(repository.cargo)
                    \o PackageXmlDeps(repository.packages))

\* What a repository may be.
Requirement == [name : STRING, constraints : Seq(STRING)]
LockedCrate == [name : STRING, version : STRING \cup {NoVersion}]
Element == [tag : STRING, name : STRING]
FileOf(item) == [readable : BOOLEAN, items : Seq(item)]
Repository == [setup : Seq(FileOf(Requirement)), cargo : Seq(FileOf(LockedCrate)),
               packages : Seq(FileOf(Element))]

-----------------------------------------------------------------------------
(***************************************************************************)
(* What the files declare, as a set and without the scanner's order: every *)
(* external package by its normalised name, with the first version of each *)
(* requirement for it or with each version it is locked to, and the        *)
(* upstream repositories of the ROS packages.                              *)
(***************************************************************************)
ItemSet(files) == UNION {ToSet(files[f].items) : f \in {g \in DOMAIN files : files[g].readable}}

DeclaredPython(repository) ==
  {<<Normalised(r.name), FirstVersion(r)>> : r \in
      {r \in ItemSet(repository.setup) : Normalised(r.name) \notin InternalPackages}}
DeclaredCrates(repository) ==
  {<<c.name, c.version>> : c \in
      {c \in ItemSet(repository.cargo) : c.version # NoVersion /\ c.name \notin InternalPackages}}
DeclaredUpstream(repository) ==
  {RosUpstreamRepos[p.name] : p \in
      {p \in ItemSet(repository.packages) :
          p.tag \in ToSet(DepTags) /\ p.name \in DOMAIN RosUpstreamRepos}}
=============================================================================
