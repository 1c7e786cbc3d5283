------------------------------ MODULE Resources -------------------------------
(***************************************************************************)
(* The resource graph of a configuration: load, loadAll and loadOne of     *)
(* internal/config/config.go, which walk it depth first.                   *)
(***************************************************************************)
EXTENDS Integers, Sequences, SequencesExt, Maps

CONSTANTS
  Root,         \* the file that heron was given
  Canonical,    \* what paths resolve to; a path may be another name of a file, or of none
  Disks         \* [file -> [fields, resources, apps]]: what the files may hold

\* Where an include leads that is not there, and one that is but not to a file.
Nowhere    == "nowhere"
Unresolved == "unresolved"

ASSUME ResourcesAssumption ==
  \A d \in Disks :
    /\ IsFiniteSet(DOMAIN d) /\ Root \in DOMAIN d /\ {Nowhere, Unresolved} \cap DOMAIN d = {}
    /\ \A file \in DOMAIN d :
         /\ d[file].resources \in Seq(STRING)
         /\ \A path \in Range(d[file].resources) \cap DOMAIN Canonical :
              Canonical[path] \in DOMAIN d

VARIABLES
  disk, strict, \* the files; LoadStrict rather than Load
  stack,        \* files being loaded, each with the resources it still has to load
  sources,      \* the file that defined each app
  load          \* how far it is, or why it failed

loadVars == <<disk, strict, stack, sources, load>>

Failures == {"missing", "circular", "invalid", "duplicate"}

LoadInit ==
  /\ disk \in Disks /\ strict \in BOOLEAN
  /\ stack = <<>> /\ sources = <<>> /\ load = "start"

\* Decoding, and in resources validateResourceFields: "global" is a field like port.
Valid(file) ==
  \/ disk[file].fields = "known"
  \/ disk[file].fields = "global" /\ file = Root
  \/ disk[file].fields = "unknown" /\ ~strict

Push(file) ==
  /\ sources' = Over(sources, [id \in DOMAIN disk[file].apps |-> file])
  /\ stack' = Append(stack, [file |-> file, todo |-> disk[file].resources])

Fail(why) == load' = why /\ UNCHANGED <<stack, sources>>

LoadRoot ==
  /\ load = "start"
  /\ IF Valid(Root) THEN load' = "loading" /\ Push(Root) ELSE Fail("invalid")
  /\ UNCHANGED <<disk, strict>>

Declaring == stack[Len(stack)]

\* Mutant: a file that was loaded before counts.
OnStackOrLoaded(file) ==
  (\E i \in DOMAIN stack : stack[i].file = file) \/ file \in Range(sources)

OnStack(file) == \E i \in DOMAIN stack : stack[i].file = file

\* The next resource of the file on top; one that is loaded goes on the stack.
LoadResource ==
  /\ load = "loading" /\ Declaring.todo # <<>>
  /\ LET path == Head(Declaring.todo)
         file == Canonical[path]
     IN  IF path \notin DOMAIN Canonical THEN Fail("missing")
         ELSE IF OnStack(file) THEN Fail("circular")
         ELSE IF ~Valid(file) THEN Fail("invalid")
         ELSE IF DOMAIN disk[file].apps \cap DOMAIN sources # {} THEN Fail("duplicate")
         ELSE Push(file) /\ UNCHANGED load
  /\ UNCHANGED <<disk, strict>>

\* loadOne returns, and loadAll goes on with the next resource.
LoadReturn ==
  /\ load = "loading" /\ Declaring.todo = <<>>
  /\ IF Len(stack) = 1 THEN load' = "loaded" /\ stack' = <<>>
     ELSE LET outer == Front(stack)
          IN  /\ stack' = [outer EXCEPT ![Len(outer)].todo = Tail(@)]
              /\ UNCHANGED load
  /\ UNCHANGED <<disk, strict, sources>>

LoadNext == LoadRoot \/ LoadResource \/ LoadReturn

-----------------------------------------------------------------------------
(* Properties *)

LoadTypeOK ==
  /\ load \in {"start", "loading", "loaded"} \cup Failures
  /\ \A id \in DOMAIN sources : id \in DOMAIN disk[sources[id]].apps
  /\ Len(stack) <= Cardinality(DOMAIN disk)

\* The file that a position in the list of resources of a file leads to.
Included(file, i) ==
  IF file \notin DOMAIN disk THEN Nowhere
  ELSE LET paths == disk[file].resources
       IN  IF i \notin DOMAIN paths THEN Nowhere
           ELSE IF paths[i] \notin DOMAIN Canonical THEN Unresolved
           ELSE Canonical[paths[i]]

\* A chain is a sequence of positions: where its first n lead to from the root.
Follow(chain, n) ==
  LET file[k \in 0..n] == IF k = 0 THEN Root ELSE Included(file[k - 1], chain[k])
  IN  file[n]

End(chain) == Follow(chain, Len(chain))

Positions == UNION {DOMAIN disk[f].resources : f \in DOMAIN disk}

\* Those as long as there are files at most: a cycle is met in one of them.
Chains == {c \in SeqOf(Positions, Cardinality(DOMAIN disk)) : End(c) # Nowhere}

\* A chain comes to a file where it has been.
Cyclic == \E c \in Chains : \E n \in 0..(Len(c) - 1) : Follow(c, n) = End(c)

\* Every chain resolves, and its files are valid; no two chains, of which there may be
\* several to one file, define an app of the same name.
Loadable ==
  /\ ~Cyclic
  /\ \A c \in Chains : End(c) # Unresolved /\ Valid(End(c))
  /\ \A c, d \in Chains :
       c = d \/ DOMAIN disk[End(c)].apps \cap DOMAIN disk[End(d)].apps = {}

\* Loading ends with every app of the graph, each from the file that has it, or fails:
\* as it should, and as circular only for a cycle, whatever is included in which order
\* and under which name ("CanonicalPath ... the same canonical form", config.go:211-212).
LoadedExactly ==
  /\ load = "loaded" =>
       /\ Loadable
       /\ DOMAIN sources = UNION {DOMAIN disk[End(c)].apps : c \in Chains}
  /\ load \in Failures => ~Loadable
  /\ load = "circular" => Cyclic

\* "App IDs must be unique across the complete resource graph" (README.md:195), which they
\* are if only one file defines them, however often that file is included.
SharingAllowed ==
  load = "duplicate" =>
    \E c, d \in {c \in Chains : End(c) # Unresolved} :
       /\ End(c) # End(d)
       /\ DOMAIN disk[End(c)].apps \cap DOMAIN disk[End(d)].apps # {}

=============================================================================
