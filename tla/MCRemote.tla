----------------------------- MODULE MCRemote -----------------------------
\* A project of two VMs and two declarations: going from the first to the
\* second drops a recipe with its values, unsets a parameter, changes a secret
\* and a plain field; going back adds all of it.
EXTENDS Remote

CONSTANTS v1, v2, keep, gone, g1, g2

OrderDef == <<v1, v2>>

DeclsDef ==
  {[image |-> "i", cpus |-> 0, recipes |-> {keep, gone},
    params |-> [x \in Recipes |-> "a"], secrets |-> [x \in Recipes |-> "a"]],
   [image |-> "i", cpus |-> 2, recipes |-> {keep},
    params |-> [x \in Recipes |-> Unset],
    secrets |-> [x \in Recipes |-> IF x = keep THEN "b" ELSE Unset]]}

\* Bound on the start: a project not brought up yet has the first declaration,
\* one brought up in another GCP project the second.
SmallInit ==
  /\ RemoteInit
  /\ \A n \in VMs : rec[n] = NoRecord => gone \in file[n].recipes
  /\ \A n \in VMs : pinned[n] # Listed => gone \notin file[n].recipes

SmallSpec == SmallInit /\ [][RemoteNext]_remoteVars /\ Fairness
============================================================================
