------------------------------ MODULE MCBooster ------------------------------
(* The Booster on the first 11 entries of the firmware's table (gconfig.c:4-13) *)
(* at their own places: the six pages that hold them.                           *)
EXTENDS Booster, TLC

MCKeyLen == [i \in 0 .. 10 |-> <<12, 12, 8, 9, 20, 12, 13, 17, 9, 9, 4>>[i + 1]]

MCDefaults == [i \in 0 .. 10 |->
  <<"magic", "IKBD", "croissant", "5", "30", "XX", "sidecart", "10", "", "0", "255">>[i + 1]]

MCValues == {MCDefaults[i] : i \in 0 .. 10} \cup
            {"CONFIG", "falcon", "1", "8", "home", "work", "short", "a long password", "a long p", "FR", "zz"}

MCPuts == {}

Wifi(mode, host, ssid, password, auth) ==
  (HOSTNAME :> host) @@ (WIFI_AUTH :> auth) @@ (WIFI_PASSWORD :> password)
    @@ (WIFI_SSID :> ssid) @@ (WIFI_MODE :> mode)

\* Two networks, one without a name (refused), an access point with everything
\* to fill in, one with a long password; the mode page, which sets MODE only.
MCForms ==
  { Wifi(STA, "falcon", "home", "a long password", "8"),
    Wifi(STA, "falcon", "work", "sidecart", "5"),
    Wifi(STA, "croissant", "", "sidecart", "5"),
    Wifi(AP, "croissant", "", "", "5"),
    Wifi(AP, "falcon", "home", "a long password", "0"),
    10 :> "1" }

\* Parts of two of them.
MCRefused == {WIFI_SSID :> "work", (HOSTNAME :> "croissant") @@ (WIFI_MODE :> STA)}

\* A code getCountryCode knows, and one it replaces.
MCCountries == {"FR", "zz"}
MCCountryOf == [v \in MCValues |-> IF v = "FR" THEN v ELSE "XX"]
MCClipped == [v \in MCValues |-> IF v = "a long password" THEN "a long p" ELSE v]

MCCutErases == {{0}, 0 .. 3, 1 .. 5, {0, 1, 2, 4, 5}}
=============================================================================
