----------------------------- MODULE Environment ------------------------------
(***************************************************************************)
(* The environment of an app: resolveEnvironment in internal/config and    *)
(* mergeEnvironment in internal/process/runner.go.                         *)
(*                                                                         *)
(* A value is a sequence of pieces of text.  An inline template is one of  *)
(* tokens: [text], or [key, default], NoDefault if it has none.         *)
(***************************************************************************)
EXTENDS Integers, Sequences, SequencesExt, Maps

CONSTANTS
  Inherited,    \* heron's own environment
  EnvFile       \* what the files that can be read assign

VARIABLES
  base,         \* what templates refer to
  env,          \* the app's own variables so far
  read,         \* how many of its files have been read
  inline        \* names of the inline entries still to be resolved

envVars == <<base, env, read, inline>>

NoDefault == "none"

EnvInit == base = <<>> /\ env = <<>> /\ read = 0 /\ inline = {}

BeginResolving(app) ==
  base' = Inherited /\ env' = <<>> /\ read' = 0 /\ inline' = DOMAIN app.inline

FilesRead(app) == read = Len(app.envFiles)
NextFile(app) == app.envFiles[read + 1]

\* What a file assigns goes over what those before it did.
ReadEnvFile(app) ==
  /\ base' = Over(EnvFile[NextFile(app)], base)
  /\ env' = Over(EnvFile[NextFile(app)], env)
  /\ read' = read + 1
  /\ UNCHANGED inline

\* Mutant: templates see the inline entries resolved before them.
SnapshotSoFar == Over(env, base)

Snapshot == base

\* interpolateEnv
IsSet(token, vars) == "text" \in DOMAIN token \/ token.key \in DOMAIN vars \/ token.default # NoDefault
Resolves(template, vars) == \A i \in DOMAIN template : IsSet(template[i], vars)

Interpolate(template, vars) ==
  LET Piece(token) == IF "text" \in DOMAIN token THEN <<token.text>>
                      ELSE IF token.key \in DOMAIN vars THEN vars[token.key]
                      ELSE <<token.default>>
  IN  FlattenSeq([i \in DOMAIN template |-> Piece(template[i])])

\* One inline entry, in the order of a Go map.
ResolveInline(app, key) ==
  /\ env' = Over([k \in {key} |-> Interpolate(app.inline[key], Snapshot)], env)
  /\ inline' = inline \ {key}
  /\ UNCHANGED <<base, read>>

\* What a command of the app is run with.
MergeEnvironment(parent, overrides) == Over(overrides, parent)

-----------------------------------------------------------------------------
(* Properties *)

\* A variable by its layers alone: the last file that assigns it, or else heron's own.
Layered(files, key) ==
  LET last == SelectLastInSeq(files, LAMBDA f : key \in DOMAIN EnvFile[f])
  IN  IF last # 0 THEN EnvFile[files[last]][key] ELSE Inherited[key]

LayeredKeys(files) == DOMAIN Inherited \cup UNION {DOMAIN EnvFile[f] : f \in Range(files)}

Readable(app) == Range(app.envFiles) \subseteq DOMAIN EnvFile

\* Every reference of the inline entries of app is set in a file or heron's environment,
\* or has a default.
Resolvable(app) ==
  /\ Readable(app)
  /\ \A key \in DOMAIN app.inline : \A i \in DOMAIN app.inline[key] :
       LET token == app.inline[key][i]
       IN  "text" \in DOMAIN token \/ token.default # NoDefault
             \/ token.key \in LayeredKeys(app.envFiles)

\* The environment a command of app should have, whatever the order of its entries.
Expected(app) ==
  LET Value(token) == IF "text" \in DOMAIN token THEN <<token.text>>
                      ELSE IF token.key \in LayeredKeys(app.envFiles)
                        THEN Layered(app.envFiles, token.key)
                      ELSE <<token.default>>
  IN  [key \in LayeredKeys(app.envFiles) \cup DOMAIN app.inline |->
         IF key \in DOMAIN app.inline
           THEN FlattenSeq([i \in DOMAIN app.inline[key] |-> Value(app.inline[key][i])])
           ELSE Layered(app.envFiles, key)]

=============================================================================
