---------------------------- MODULE AccessControl ----------------------------
(* Who may do what with an identity: AccessControlManagerHelper, and the     *)
(* checks that the D-Bus adaptors make before each call.  What an            *)
(* application is, and which security contexts it has access to, is for an   *)
(* extension (AbstractAccessControlManager) to say: AppId and Access.  The   *)
(* default one knows no application and gives everyone access to everything. *)
(*                                                                           *)
(* The checks keep no state: they are operators on the tables d.             *)
EXTENDS MetaDataDB

CONSTANTS Peer,       \* the clients
          AppId,      \* appIdOfPeer(): by peer, a token or Null
          Access,     \* isPeerAllowedToAccess(): by peer, a set of tokens
          Any,        \* "*"
          KeychainId  \* keychainWidgetAppId()

ASSUME AccessAssumption == /\ AppId \in [Peer -> Token \cup {Null}]
                           /\ Access \in [Peer -> SUBSET Token]
                           /\ Any \in Token /\ KeychainId \in Token \cup {Null}

PeerHasOneOfAccesses(peer, contexts) == Access[peer] \cap contexts # {}

HasOwner(d, id) == OwnerList(d, id) # {}
IsPeerOwner(d, peer, id) == PeerHasOneOfAccesses(peer, OwnerList(d, id))

\* An identity that is not there has neither list, and nobody may use it.
IsPeerAllowedToUse(d, peer, id) ==
    \/ IsPeerOwner(d, peer, id)
    \/ Any \in AccessControlList(d, id)
    \/ PeerHasOneOfAccesses(peer, AccessControlList(d, id))

IsPeerKeychainWidget(peer) == AppId[peer] = KeychainId

\* SignonIdentityAdaptor::remove().
MayRemove(d, peer, id) ==
    HasOwner(d, id) => IsPeerOwner(d, peer, id) \/ IsPeerKeychainWidget(peer)

\* SignonIdentityAdaptor::store(): the id that the client sends decides whether
\* the owner is asked for.
MayStore(d, peer, id, sent) == sent # NewIdentity => MayRemove(d, peer, id)
=============================================================================
