----------------------------- MODULE MCSftpAuth -----------------------------
(* Settings for SftpAuth: the default, a new password, and key logins with
   and without a configured key.                                           *)
EXTENDS SftpAuth

CONSTANTS p1, p2

MCDefault == [password |-> p1, mode |-> "password", publicKey |-> NoKey]
MCSettings == {MCDefault,
               [password |-> p2, mode |-> "any", publicKey |-> p1],
               [password |-> p1, mode |-> "key", publicKey |-> NoKey],
               [password |-> p2, mode |-> "key", publicKey |-> "unparsable"]}
=============================================================================
