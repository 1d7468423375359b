---- MODULE ExtensionCatalogue ----
(***************************************************************************)
(* What the extension registry promises (docs/extension-authoring.md): the  *)
(* catalogue of an installed extension and its approvals changes by whole   *)
(* operations, one after the other.                                         *)
(***************************************************************************)
EXTENDS Naturals

CONSTANTS
    Digests,   \* versions of the extension, by the digest of their bundles
    Projects,
    None

VARIABLES
    installed, \* the installed version
    grants     \* each project's approval: of which version, and when it was given

catalogue == <<installed, grants>>

NoGrant == [digest |-> None, at |-> 0]

CatalogueInit ==
    /\ installed = None
    /\ grants = [p \in Projects |-> NoGrant]

\* An update to other bytes clears the approvals of every project; installation approves nothing.
Install(d) ==
    /\ installed' = d
    /\ grants' = IF d = installed THEN grants ELSE [p \in Projects |-> NoGrant]

Remove ==
    /\ installed # None
    /\ installed' = None
    /\ grants' = [p \in Projects |-> NoGrant]

\* An approval is of the installed version, and differs from the one it replaces.
Grant(p, d) ==
    /\ installed = d
    /\ grants'[p].digest = d /\ grants'[p] # grants[p]
    /\ grants' = [grants EXCEPT ![p] = grants'[p]]
    /\ UNCHANGED installed

Revoke(p) ==
    /\ installed # None
    /\ grants' = [grants EXCEPT ![p] = NoGrant]
    /\ UNCHANGED installed

CatalogueNext ==
    \/ \E d \in Digests : Install(d)
    \/ Remove
    \/ \E p \in Projects : Revoke(p) \/ \E d \in Digests : Grant(p, d)

CatalogueSpec == CatalogueInit /\ [][CatalogueNext]_catalogue
====
