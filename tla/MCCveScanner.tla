----------------------------- MODULE MCCveScanner -----------------------------
(***************************************************************************)
(* Instances of CveScanner for TLC.  The repository has two setup.py that  *)
(* name one package in two spellings and two versions, two files that      *)
(* cannot be read, a crate in two versions, and ROS packages of which two  *)
(* share an upstream repository.                                           *)
(***************************************************************************)
EXTENDS CveScanner

MCNormal == ("Foo-Bar" :> "foo_bar") @@ ("schunk-fts-library" :> "schunk_fts_library")

File(items) == [readable |-> TRUE, items |-> items]
Broken == [readable |-> FALSE, items |-> <<>>]
Req(name, constraints) == [name |-> name, constraints |-> constraints]
Crate(name, version) == [name |-> name, version |-> version]
InFile(tag, name) == [tag |-> tag, name |-> name]

Full ==
  [setup |-> <<File(<<Req("Foo-Bar", <<"1", "3">>), Req("schunk-fts-library", <<>>)>>), Broken,
               File(<<Req("foo_bar", <<"2">>), Req("foo_bar", <<"1">>)>>)>>,
   cargo |-> <<File(<<Crate("tokio", "1"), Crate("tokio", "2"), Crate("schunk_fts_dummy", "1"),
                      Crate("nothing", "")>>)>>,
   packages |-> <<File(<<InFile("exec_depend", "std_msgs"), InFile("depend", "ament_cmake"),
                         InFile("depend", "geometry_msgs"), InFile("doc_depend", "rclpy")>>),
                  Broken,
                  File(<<InFile("depend", "std_msgs"), InFile("depend", "unknown")>>)>>]
Small == [setup |-> <<File(<<Req("foo_bar", <<>>)>>)>>, cargo |-> <<>>, packages |-> <<>>]
MCRepositories == {Full, Small}

MCVulnId == {"GHSA-1", "GHSA-2", "PYSEC-1", "RUSTSEC-1"}

Listed(ecosystem, name, version, id) ==
  [ecosystem |-> ecosystem, name |-> name, version |-> version, id |-> id]
Advisory(repo, endpoint, id) == [repo |-> repo, endpoint |-> endpoint, id |-> id]
Vuln(ghsa, alias, label, page, rest) ==
  [ghsa |-> ghsa, alias |-> alias, label |-> label, page |-> page, rest |-> rest]

Vulns == ("GHSA-1" :> Vuln(TRUE, FALSE, "HIGH", 81, 75))
           @@ ("GHSA-2" :> Vuln(TRUE, FALSE, "MODERATE", NoScore, 50))
           @@ ("PYSEC-1" :> Vuln(FALSE, TRUE, "CRITICAL", NoScore, 98))
           @@ ("RUSTSEC-1" :> Vuln(FALSE, FALSE, "", NoScore, NoScore))

Known == [osv |-> {Listed("PyPI", "foo_bar", "1", "GHSA-1"), Listed("PyPI", "foo_bar", "2", "PYSEC-1"),
                   Listed("crates.io", "tokio", "2", "RUSTSEC-1")},
          github |-> {Advisory("ros2/common_interfaces", "pip", "GHSA-2"),
                      Advisory("ros2/common_interfaces", "repository", "GHSA-2"),
                      Advisory("ros2/common_interfaces", "repository", "GHSA-1")},
          vuln |-> Vulns]
Nothing == [osv |-> {}, github |-> {}, vuln |-> Vulns]
MCWorlds == {Known, Nothing}
=============================================================================
