--------------------------- MODULE MCAreaMarkets ---------------------------
(* Instances of AreaMarkets for TLC: a grid with a house and its load, and *)
(* a shop with a till that is created while the simulation runs.           *)
EXTENDS AreaMarkets

MCTopDown == <<"grid", "house", "shop", "load", "till">>
MCParent == [a \in {"house", "shop", "load", "till"} |->
             CASE a = "load" -> "house" [] a = "till" -> "shop" [] OTHER -> "grid"]
MCEventLists ==
    LET at(kind, hour) == [kind |-> kind, at |-> hour]
        during(kind, from, to) == [kind |-> kind, from |-> from, to |-> to]
    IN  {[a \in {} |-> {}],
         [house |-> {at("disable", 1), at("enable", 2)}],
         [house |-> {during("disconnect_interval", 1, 2)}],
         [grid |-> {at("disconnect", 1), at("connect", 3)}, load |-> {during("disable_interval", 0, 2)}]}

Request(kind, area, isBulk) == [kind |-> kind, area |-> area, bulk |-> isBulk]
MCRequests ==
    {<<Request("create", "shop", FALSE)>>, <<Request("delete", "shop", FALSE)>>,
     <<Request("create", "load", FALSE)>>, <<Request("forward", "load", FALSE)>>,
     <<Request("forward", "till", FALSE)>>, <<Request("malformed", "shop", FALSE)>>,
     <<Request("delete", "load", TRUE), Request("create", "shop", TRUE)>>,
     <<Request("delete", "house", TRUE), Request("malformed", "shop", TRUE)>>}
=============================================================================
