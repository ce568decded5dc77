------------------------ MODULE MCManifestLifecycle ------------------------
(***************************************************************************)
(* Instances of ManifestLifecycle for TLC: one registered service, and     *)
(* repositories of every project type.                                     *)
(***************************************************************************)
EXTENDS ManifestLifecycle

Repo(files, declared, servers, routes, deps) ==
  [files |-> files, readable |-> TRUE, declared |-> declared, version |-> "right", long |-> {},
   directory |-> "unregistered", servers |-> servers, routes |-> routes, deps |-> deps]

SomeRepos ==
  {Repo({"Cargo.toml", "build.zig"}, "svc", {"Rust"}, {"/scan", "/graphql"}, {"hypatia"}),
   Repo({"mix.exs", "deno.json"}, Absent, {}, {"/scan"}, {"verisimdb"}),
   Repo({"deno.json"}, "unregistered", {"Deno"}, {"/scan"}, {"hypatia", "verisimdb"}),
   Repo({"build.zig"}, Absent, {"Zig"}, {}, {}),
   Repo({}, Absent, {"Rust"}, {}, {}),
   [Repo({"deno.json"}, "svc", {"Deno"}, {}, {}) EXCEPT !.version = "wrong"],
   [Repo({"deno.json"}, "svc", {}, {}, {}) EXCEPT !.readable = FALSE, !.directory = "Not An Id"],
   [Repo({"mix.exs"}, "svc", {}, {}, {"hypatia"}) EXCEPT !.readable = FALSE, !.long = {"name"}]}

OnePort == [s \in {"svc"} |-> 6465]

=============================================================================
