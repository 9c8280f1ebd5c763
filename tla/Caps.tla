-------------------------------- MODULE Caps --------------------------------
(***************************************************************************)
(* Dataset-scoped query grants (src/caps.rs): what a grant says, how one   *)
(* is minted and when a serving host accepts it.  A name is the sequence   *)
(* of its parts, so that one name can extend another; the empty scope      *)
(* stands for every dataset.  Signatures and delegation live in the        *)
(* library behind Authorize, which is modelled from how this code uses it. *)
(***************************************************************************)
EXTENDS Naturals, Sequences

QueryAbility == "query:read"

(* Scope::all, Scope::dataset and the caveat string are one value.         *)
AllDatasets == <<>>

(* Optional values are sequences of at most one element.                   *)
IsOption(option) == option # <<>> => option = <<Head(option)>>
OrElse(option, default) == IF option = <<>> THEN default ELSE Head(option)

(* A grant that is absent from a request, and one that does not decode.    *)
NoGrant == [missing |-> TRUE]
Garbled == [missing |-> FALSE]

(* scope_allows: the scope is empty or names exactly this dataset.         *)
ScopeAllows(scope, dataset) == scope = AllDatasets \/ scope = dataset

(* mint, as grant_cmd calls it: one self-issued capability.                *)
Mint(owner, audience, scope, expires, nonce) ==
  [issuer |-> owner, audience |-> audience, abilities |-> {QueryAbility},
   pathPrefix |-> <<scope>>, expires |-> expires, nonce |-> nonce]

(* grant_cmd: the audience defaults to the owner, the scope to everything. *)
GrantCmd(owner, given, dataset, expires, nonce) ==
  Mint(owner, OrElse(given, owner), OrElse(dataset, AllDatasets), expires, nonce)

(* inspect and the end of verify: the scope of the leaf capability.        *)
LeafScope(grant) == OrElse(grant.pathPrefix, AllDatasets)

(* On-chain revocations are keyed by issuer and nonce.                     *)
RevocationKey(grant) == <<grant.issuer, grant.nonce>>

(* ce_iam_core::authorize for a chain of one capability: an accepted root, *)
(* the right holder and ability, neither expired nor revoked.              *)
Authorize(roots, requester, ability, grant, expired, revoked) ==
  /\ grant.issuer \in roots
  /\ grant.audience = requester
  /\ ability \in grant.abilities
  /\ ~(grant.expires /\ grant \in expired)
  /\ RevocationKey(grant) \notin revoked

(* verify: the library's check, then the application's own scope check.    *)
Verify(roots, requester, dataset, grant, expired, revoked) ==
  /\ grant # Garbled
  /\ Authorize(roots, requester, QueryAbility, grant, expired, revoked)
  /\ ScopeAllows(LeafScope(grant), dataset)
=============================================================================
