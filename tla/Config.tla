-------------------------------- MODULE Config --------------------------------
(***************************************************************************)
(* A configuration from its files to the requests it routes: config.Load,  *)
(* which loads the resource graph and normalises its apps one by one in    *)
(* the order of a Go map, and the handler made of the result.              *)
(***************************************************************************)
EXTENDS Resources, Environment, Router

ASSUME ConfigAssumption ==
  \A d \in Disks : \A file \in DOMAIN d : \A id \in DOMAIN d[file].apps :
    LET app == d[file].apps[id]
    IN  app.endpoints \subseteq EndpointConfig /\ app.envFiles \in Seq(STRING)

VARIABLES
  phase,
  pending, current,   \* apps still to be normalised, the one being normalised
  envs                \* RuntimeAppConfig.Env of the apps done

configVars ==
  <<phase, pending, current, envs, loadVars, config, todo, tableVars, envVars, routerVars>>

App(id) == disk[sources[id]].apps[id]

ConfigInit ==
  /\ LoadInit /\ NormalizeInit /\ EnvInit /\ RouterInit
  /\ phase = "load" /\ pending = {} /\ current = "" /\ envs = <<>>

Load ==
  /\ phase = "load" /\ LoadNext
  /\ phase' = CASE load' = "loaded" -> "apps" [] load' \in Failures -> "rejected"
                [] OTHER -> "load"
  /\ pending' = IF load' = "loaded" THEN DOMAIN sources ELSE {}
  /\ UNCHANGED <<current, envs, config, todo, tableVars, envVars, routerVars>>

\* A step of Normalize that fails ends it.
Reject == phase' = "rejected" /\ UNCHANGED <<envs, config, todo, tableVars, envVars>>

BeginApp(id) ==
  /\ phase = "apps" /\ id \in pending
  /\ pending' = pending \ {id} /\ current' = id
  /\ IF App(id).launch /\ NamesDiffer(App(id)) /\ OnePrimary(App(id))
       THEN /\ phase' = "endpoints" /\ todo' = EndpointInputs(id, App(id))
            /\ UNCHANGED <<envs, config, tableVars, envVars>>
       ELSE Reject
  /\ UNCHANGED <<loadVars, routerVars>>

NormalizeEndpoint(e) ==
  /\ phase = "endpoints" /\ e \in todo
  /\ IF Fits(e) /\ ~Clashes(e)
       THEN /\ Register(e)
            /\ todo' = todo \ {e} /\ config' = config \cup {e}
            /\ UNCHANGED <<phase, envs, envVars>>
       ELSE Reject
  /\ UNCHANGED <<pending, current, loadVars, routerVars>>

BeginEnvironment ==
  /\ phase = "endpoints" /\ todo = {}
  /\ IF App(current).pwd
       THEN /\ phase' = "environment" /\ BeginResolving(App(current))
            /\ UNCHANGED <<envs, config, todo, tableVars>>
       ELSE Reject
  /\ UNCHANGED <<pending, current, loadVars, routerVars>>

ReadEnvironment ==
  /\ phase = "environment" /\ ~FilesRead(App(current))
  /\ IF NextFile(App(current)) \in DOMAIN EnvFile
       THEN ReadEnvFile(App(current)) /\ UNCHANGED <<phase, envs, config, todo, tableVars>>
       ELSE Reject
  /\ UNCHANGED <<pending, current, loadVars, routerVars>>

ResolveEntry(key) ==
  /\ phase = "environment" /\ FilesRead(App(current)) /\ key \in inline
  /\ IF Resolves(App(current).inline[key], Snapshot)
       THEN /\ ResolveInline(App(current), key)
            /\ UNCHANGED <<phase, envs, config, todo, tableVars>>
       ELSE Reject
  /\ UNCHANGED <<pending, current, loadVars, routerVars>>

EndApp ==
  /\ phase = "environment" /\ FilesRead(App(current)) /\ inline = {}
  /\ phase' = "apps" /\ envs' = Over(envs, [id \in {current} |-> env])
  /\ UNCHANGED <<pending, current, loadVars, config, todo, tableVars, envVars, routerVars>>

StartServing ==
  /\ phase = "apps" /\ pending = {}
  /\ phase' = "serving" /\ NewHandler
  /\ UNCHANGED <<pending, current, envs, loadVars, config, todo, tableVars, envVars>>

HandleRequest(r) ==
  /\ phase = "serving" /\ Serve(r)
  /\ UNCHANGED <<phase, pending, current, envs, loadVars, config, todo, tableVars, envVars>>

ConfigNext ==
  \/ Load
  \/ \E id \in pending : BeginApp(id)
  \/ \E e \in todo : NormalizeEndpoint(e)
  \/ BeginEnvironment \/ ReadEnvironment
  \/ \E key \in inline : ResolveEntry(key)
  \/ EndApp
  \/ StartServing
  \/ \E r \in Requests : HandleRequest(r)

ConfigSpec == ConfigInit /\ [][ConfigNext]_configVars

-----------------------------------------------------------------------------
(* Properties *)

ConfigTypeOK ==
  /\ LoadTypeOK /\ RouterTypeOK
  /\ phase \in {"load", "apps", "endpoints", "environment", "serving", "rejected"}
  /\ pending \cup DOMAIN envs \subseteq DOMAIN sources

AllEndpoints == UNION {EndpointInputs(id, App(id)) : id \in DOMAIN sources}

\* What Normalize asks of the apps, with nothing said of the order it visits them in.
Acceptable ==
  /\ \A id \in DOMAIN sources :
       /\ App(id).launch /\ App(id).pwd
       /\ NamesDiffer(App(id)) /\ OnePrimary(App(id))
       /\ Resolvable(App(id))
  /\ Sound(AllEndpoints)

\* The types; and in whatever order the maps of Normalize are walked, a configuration is
\* rejected exactly when one of its apps or two of its endpoints are wrong, and served
\* with all its endpoints.
ConfigInv ==
  /\ ConfigTypeOK
  /\ phase = "rejected" /\ load = "loaded" => ~Acceptable
  /\ phase = "serving" => Acceptable /\ config = AllEndpoints

\* Each command runs with heron's environment, under the app's files, the later over the
\* earlier, under its inline entries, which refer to the former only ("Inline entries
\* never depend on map iteration order", environment.go:14).
EnvironmentLayered ==
  \A id \in DOMAIN envs : MergeEnvironment(Inherited, envs[id]) = Expected(App(id))

=============================================================================
