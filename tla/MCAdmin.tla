------------------------------ MODULE MCAdmin ------------------------------
(***************************************************************************)
(* Instances, for TLC, of the components that operate the server: the      *)
(* calls that change it, its secrets, the evolution of models, populate    *)
(* and the migration of old databases.  They share no state here, so a     *)
(* behaviour runs one of them, and the others stay as they are.            *)
(***************************************************************************)
EXTENDS ControlPlane, Secrets, Schema, Populate, MetaMigration, TLC

CONSTANTS v1, v2, a1, a2, a3, A, B, C, d1

VARIABLE focus  \* the component that runs

adminVars == <<focus, controlVars, secretsVars, schemaVars, pVars, mVars>>

-----------------------------------------------------------------------------
\* ControlPlane: a1 brings A, a2 has both models; a3 is of another version.
Versions == [a \in Apply |-> IF a = a3 THEN v2 ELSE v1]
Models   == [a \in Apply |-> IF a = a1 THEN {A} ELSE {A, B}]
Deletes  == [d \in Delete |-> v1]

\* Schema: A may be required, optional and unique, or refer to B, and B to C.
F(type, optional, default, unique) ==
  [type |-> type, optional |-> optional, default |-> default, unique |-> unique]
Fields == A :> {F("text", FALSE, FALSE, FALSE), F("text", TRUE, FALSE, TRUE),
                F(B, TRUE, FALSE, FALSE)}
       @@ B :> {F(C, FALSE, FALSE, FALSE)}
       @@ C :> {}

\* Populate: A is kept, or changed in every way; B stays as it is.
PF(type, optional, default) == [type |-> type, optional |-> optional, default |-> default]
Text    == PF("text", FALSE, FALSE)
Evolve(from, to) == [from |-> A :> from @@ B :> ("f" :> Text), to |-> A :> to @@ B :> ("f" :> Text)]
Evolutions ==
  {Evolve("f" :> Text, to) :
     to \in {"f" :> Text, "f" :> PF("double", FALSE, FALSE),
             "f" :> Text @@ "g" :> PF("text", FALSE, TRUE), "f" :> Text @@ "g" :> PF("text", TRUE, FALSE)}}
  \cup {Evolve("f" :> PF("text", TRUE, FALSE), "f" :> PF("text", FALSE, d)) : d \in BOOLEAN}
  \cup {Evolve("f" :> Text @@ "g" :> Text, "f" :> Text)}

\* MetaMigration: two versions, sources of either layout and one without a version.
Path(segs, ext) == [segs |-> segs, ext |-> ext]
SourcePaths == SUBSET {Path(<<"v1", "routes", "a">>, "ts"), Path(<<"v2", "endpoints", "a">>, "ts"),
                       Path(<<"v1", "models", "m">>, "ts"), Path(<<"v1", "m">>, "ts"), Path(<<"old">>, "ts")}

-----------------------------------------------------------------------------
AdminInit ==
  /\ focus \in {"control", "secrets", "schema", "populate", "migration"}
  /\ ControlInit /\ SecretsInit /\ SchemaInit /\ PInit /\ MInit
  /\ focus # "secrets" => source.ok

AdminNext ==
  /\ UNCHANGED focus
  /\ \/ focus = "control" /\ ControlNext /\ UNCHANGED <<secretsVars, schemaVars, pVars, mVars>>
     \/ focus = "secrets" /\ SecretsNext /\ UNCHANGED <<controlVars, schemaVars, pVars, mVars>>
     \/ focus = "schema" /\ SchemaNext /\ UNCHANGED <<controlVars, secretsVars, pVars, mVars>>
     \/ focus = "schema" /\ broken /\ UNCHANGED <<controlVars, secretsVars, schemaVars, pVars, mVars>>
     \/ focus = "populate" /\ PNext /\ UNCHANGED <<controlVars, secretsVars, schemaVars, mVars>>
     \/ focus = "migration" /\ MNext /\ UNCHANGED <<controlVars, secretsVars, schemaVars, pVars>>

AdminSpec ==
  /\ AdminInit /\ [][AdminNext]_adminVars
  /\ ControlFairness
  /\ WF_secretsVars(focus = "secrets" /\ RefreshStep)
  /\ \A a \in Applier : WF_secretsVars(focus = "secrets" /\ (apply_ok(a) \/ apply_err(a)))

\* The inductive invariants that the proofs about apply, delete, start, the models,
\* populate and the migration rest on, and the type invariant of the secrets.
AdminInv == ControlInv /\ SecretsTypeOK /\ SchemaInv /\ PopulateInv /\ MigrationInv
=============================================================================
