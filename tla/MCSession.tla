----------------------------- MODULE MCSession -----------------------------
(* Session with two accounts and two addresses, for TLC. *)
EXTENDS Session

MCSlots     == 1..2
MCWrites    == {"login", "google", "signup.verify", "reset.confirm", "logout",
                "signup.request", "reset.request", "admin.login", "admin.me", "admin.logout"}
MCRedirects == {"login", "google", "signup.verify", "logout",
                "admin.login", "admin.me", "admin.logout"}
MCAccounts  == {"customer", "admin"}
MCEmails    == {"a", "b"}
=============================================================================
