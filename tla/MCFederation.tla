---------------------------- MODULE MCFederation ----------------------------
\* An instance of Federation, and of the Accounts it extends, for TLC.
EXTENDS Federation, TLC

CONSTANT e2

\* Local requests, on a fleet that boots on an empty database; and federated ones,
\* with the local ones that matter to them, on an instance that is set up.
Local == {"tick", "register", "createUser", "createService", "setPermissions", "profile",
          "changePassword", "forgotPassword", "resendVerification", "useLink", "createToken",
          "revoke", "setActive", "deleteUser", "group"}
Federated == {"createToken", "deleteUser", "provider", "scimToken", "authorize", "unlink",
              "scim", "scimGroup"}
MCRequestSets == {Local, Federated}

\* Every subject has the second address.
MCEmailOf == [s \in Subjects |-> e2]

MCInit == (Init /\ ops.kinds = Local) \/ (SetUp /\ ops.kinds = Federated)
MCSpec == MCInit /\ [][Next]_vars

MCSymmetry == Permutations(Users) \cup Permutations(Clients)

=============================================================================
