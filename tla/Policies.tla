------------------------------ MODULE Policies ------------------------------
(***************************************************************************)
(* TypeScript policies.  An entity's policy has functions that return an   *)
(* action for a value (read, create, update) or change it (onRead, ...).   *)
(* When a worker loads a policy, the condition under which the read        *)
(* function returns Skip is inferred; it becomes part of the WHERE of      *)
(* every query, and the function itself is called on the rows that come    *)
(* back and on every value that is written.                                *)
(*                                                                         *)
(* An entity can be saved by itself or as a field of another one, of a     *)
(* type without policies.                                                  *)
(*                                                                         *)
(* What the functions return, and what is inferred from them, are          *)
(* parameters (see PolicyAnalysis).                                        *)
(***************************************************************************)
EXTENDS Naturals

CONSTANTS
  PNull,      \* null, undefined, no row
  Mask,       \* what the onRead functions put in place of a value
  PPolicies,  \* policies: read, write (function bodies), mask, own
  PTables,    \* tables: a row [id, owner, a] or PNull for each id
  PContexts,  \* request contexts [method, userId]
  PNumbers,   \* values of the field a
  SkipFilter(_),     \* the condition inferred from a read function; PNull if none, or Panic
  Selects(_, _, _),  \* a row fulfils such a condition, in a context
  Call(_, _, _)      \* what a function returns for a row, in a context

\* A row's place in a table is its id, and the code does not use the masks.
ASSUME PolicyAssumption ==
  /\ \A t \in PTables : \A i \in DOMAIN t :
       t[i] # PNull => DOMAIN t[i] = {"id", "owner", "a"} /\ t[i].id = i
  /\ Mask \notin PNumbers

VARIABLES
  policy,  \* the policy and the filter that chiselc inferred
  ptable,  \* the rows
  pctx,    \* the request's context; PNull between requests
  dirty,   \* PolicyEvalInstance::dirty of the request
  held,    \* an entity that the user's code keeps
  fresh    \* it was read by this request

pVars == <<policy, ptable, pctx, dirty, held, fresh>>

Panic  == [r |-> "Panic"]
NoRows == [i \in DOMAIN CHOOSE t \in PTables : TRUE |-> PNull]

PInit ==
  /\ policy = PNull /\ ptable = NoRows /\ pctx = PNull
  /\ dirty = {} /\ held = PNull /\ fresh = FALSE

-----------------------------------------------------------------------------
(* Reading.                                                                *)

\* add_read_filters: the rows that a query of the request gets, by id.
Filtered ==
  {i \in DOMAIN ptable :
     /\ ptable[i] # PNull
     /\ policy.filter # PNull => Selects(policy.filter, pctx, ptable[i])}

-----------------------------------------------------------------------------
(* Calling the functions.                                                  *)

\* Filter::get_action.
get_action(body, row) == LET x == Call(body, row, pctx) IN IF x = "undefined" THEN "Deny" ELSE x

get_read_action(row) == get_action(policy.read, row)

is_restrictive(a) == a \in {"Deny", "Skip"}

\* get_create_action and get_update_action: what may not be read may not be written.
get_write_action(row) ==
  IF is_restrictive(get_read_action(row)) THEN get_read_action(row) ELSE get_action(policy.write, row)

\* transform_on_read, transform_on_create and transform_on_update.
transform_on_read(row) == IF policy.mask THEN [row EXCEPT !.a = Mask] ELSE row
transform_on_write(row) == IF policy.own THEN [row EXCEPT !.owner = pctx.userId] ELSE row

\* The rows of a query that are processed, by id: up to the first that is denied
\* (an error) or, in an iteration (op_chisel_query_get_value), skipped (the end).
Processed(ends) ==
  LET stops == {i \in Filtered : get_read_action(ptable[i]) \in ends}
  IN [ids |-> {i \in Filtered : \A j \in stops : i < j},
      err |-> \E i \in stops : get_read_action(ptable[i]) = "Deny" /\ \A j \in stops : i <= j]

cursor_rows == Processed({"Deny", "Skip"})

\* ValidatedEntityStream: goes on behind a row that is skipped.
stream_rows ==
  LET p == Processed({"Deny"})
  IN [p EXCEPT !.ids = {i \in @ : get_read_action(ptable[i]) # "Skip"}]

-----------------------------------------------------------------------------
(* Actions.                                                                *)

\* A worker starts with a policy (register_policy_from_code).
register_policy(p, t) ==
  /\ policy = PNull
  /\ policy' = [read |-> p.read, write |-> p.write, mask |-> p.mask, own |-> p.own,
                filter |-> SkipFilter(p.read)]
  /\ ptable' = t
  /\ UNCHANGED <<pctx, dirty, held, fresh>>

p_begin(ctx) ==
  /\ policy # PNull /\ policy.filter # Panic /\ pctx = PNull
  /\ pctx' = ctx /\ dirty' = {} /\ fresh' = FALSE
  /\ UNCHANGED <<policy, ptable, held>>

\* (Mutant: the value is compared with itself.)
dirty_none(ids) == dirty

\* process_read marks what it changes.
MarkDirty(ids) == dirty \cup {i \in ids : transform_on_read(ptable[i]) # ptable[i]}

\* process_read on the rows of a query; the code keeps one of the entities.
process_read(rs) ==
  /\ pctx # PNull
  /\ dirty' = MarkDirty(rs.ids)
  /\ \E i \in rs.ids : held' = transform_on_read(ptable[i])
  /\ fresh' = TRUE
  /\ UNCHANGED <<policy, ptable, pctx>>

\* The code changes a field of the entity it keeps.
modify(v) ==
  /\ pctx # PNull /\ held # PNull /\ held.a # v
  /\ held' = [held EXCEPT !.a = v]
  /\ UNCHANGED <<policy, ptable, pctx, dirty, fresh>>

is_object_creation == ptable[held.id] = PNull

\* process_write: a dirty entity is not updated (it can be created anew).
process_write ==
  /\ pctx # PNull /\ held # PNull
  /\ ~is_object_creation => held.id \notin dirty
  /\ ~is_restrictive(get_write_action(held))
  /\ ptable' = [ptable EXCEPT ![held.id] = transform_on_write(held)]
  /\ UNCHANGED <<policy, pctx, dirty, held, fresh>>

\* The entity is saved as a field of another one: add_row applies the policies of the
\* type that save() is called on, prepare_insertion stores the nested entity as it is.
save_nested ==
  /\ pctx # PNull /\ held # PNull
  /\ ptable' = [ptable EXCEPT ![held.id] = held]
  /\ UNCHANGED <<policy, pctx, dirty, held, fresh>>

\* Mutation::delete_from_expr, of one id.
p_delete(i) ==
  /\ pctx # PNull /\ i \in Filtered
  /\ ptable' = [ptable EXCEPT ![i] = PNull]
  /\ UNCHANGED <<policy, pctx, dirty, held, fresh>>

\* The request ends, and with it its DataContext.
p_end ==
  /\ pctx # PNull /\ pctx' = PNull /\ dirty' = {} /\ fresh' = FALSE
  /\ UNCHANGED <<policy, ptable, held>>

p_stop ==
  /\ policy # PNull /\ pctx = PNull
  /\ policy' = PNull /\ ptable' = NoRows /\ held' = PNull
  /\ UNCHANGED <<pctx, dirty, fresh>>

PNext ==
  \/ \E p \in PPolicies, t \in PTables : register_policy(p, t)
  \/ \E ctx \in PContexts : p_begin(ctx)
  \/ pctx # PNull /\ (process_read(cursor_rows) \/ process_read(stream_rows))
  \/ \E v \in PNumbers : modify(v)
  \/ process_write \/ save_nested
  \/ \E i \in DOMAIN ptable : p_delete(i)
  \/ p_end \/ p_stop

PSpec == PInit /\ [][PNext]_pVars

-----------------------------------------------------------------------------
(* Properties.                                                             *)

\* The row i gets the mask, by a request that has read the entity it keeps.
Masked(i) ==
  /\ fresh /\ ptable[i] # PNull /\ ptable[i].a # Mask
  /\ ptable'[i] # PNull /\ ptable'[i].a = Mask

\* policy/mod.rs 215-217, 180-199: saving an entity does not overwrite its row with
\* what the policy put in place of its values, whatever the request read, changed or
\* deleted since.  (An entity that is deleted and saved again, or that the code keeps
\* from an earlier request, is written as it is.)
SavesKeepMasks == [][process_write => ~Masked(held.id)]_pVars

\* policy/instances.rs 28-30, `Upon write, we check if the entity is part of this set,
\* and throw an error if it is': no write does.
MasksAreNotWritten == [][policy' = policy => \A i \in DOMAIN ptable : ~Masked(i)]_pVars

-----------------------------------------------------------------------------
(* The inductive invariant of the proofs.                                  *)

IsEntity(e) == DOMAIN e = {"id", "owner", "a"}

PolicyTypeOK ==
  /\ \A i \in DOMAIN ptable : ptable[i] # PNull => IsEntity(ptable[i]) /\ ptable[i].id = i
  /\ held # PNull => IsEntity(held) /\ held.id \in DOMAIN ptable
  /\ fresh \in BOOLEAN

\* Without a policy there is no request, and without a request nothing was read by it.
StageInv ==
  /\ policy = PNull => pctx = PNull /\ held = PNull
  /\ pctx = PNull => ~fresh

\* A mask in an entity that is not marked was read as it is, or its row is gone.
MaskInv ==
  fresh /\ held # PNull /\ held.a = Mask /\ held.id \notin dirty =>
    ptable[held.id] = PNull \/ ptable[held.id].a = Mask

PolicyInv == PolicyTypeOK /\ StageInv /\ MaskInv
=============================================================================
