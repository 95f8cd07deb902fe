---------------------------- MODULE MCDashboard ----------------------------
(* Dashboard with one package, two keys and a few usage events, for TLC. *)
EXTENDS Dashboard

MCSlots     == 1..2
MCWrites    == {"key.create", "key.rotate", "key.revoke", "checkout.package",
                "password", "logout"}
MCRedirects == {"checkout.package", "password", "logout"}
MCFilters   == {AllUsage, Backwards, "model"}
MCPackages  == {"starter"}
=============================================================================
