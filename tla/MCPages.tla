--------------------------------- MODULE MCPages ---------------------------------
(* Two tabs.  Of each setting the users know one value or two that the pages *)
(* offer; the board is new, or comes with a password that ends in a space, a  *)
(* network with a quote in its name and an auth mode no option stands for.    *)
EXTENDS Pages, TLC

CONSTANTS tab1, tab2

MCTabs == {tab1, tab2}

MCDefaults == [i \in Slots |->
  <<"croissant", "5", "sidecart", "", "0", "255", "5", "US", "false", "1", "0", "false", "US", "0">>[i + 1]]

MCOffered == [i \in Slots |->
  <<{"croissant"}, {"5"}, {"pass "}, {"home "}, {"0", "1"}, {},
    {"5", "7"}, {"us"}, {"No"}, {"1", "2"}, {"0"}, {"Yes", "No"}, {"us"}, {"0", "7"}>>[i + 1]]

MCValues == {MCDefaults[i] : i \in Slots} \cup UNION {MCOffered[i] : i \in Slots \ Checkboxes}
              \cup {"1", "2", "3", "11", "255", "true", "us", "pass", "home", "a\"b"}

MCLiteral == [v \in MCValues |-> IF v = "a\"b" THEN Broken ELSE v]
MCLower == [v \in MCValues |-> IF v = "US" THEN "us" ELSE v]
MCTrim == [v \in MCValues |-> CASE v = "pass " -> "pass" [] v = "home " -> "home" [] OTHER -> v]

MCFound ==
  { MCDefaults,
    [MCDefaults EXCEPT ![MODE] = "1", ![JOYSTICK_USB] = "true", ![WIFI_AUTH] = "3", ![WIFI_PASSWORD] = "pass "],
    [MCDefaults EXCEPT ![MODE] = "2", ![MOUSE_ORIGINAL] = "true", ![JOYSTICK_USB_PORT] = "2",
                       ![JOYSTICK_USB_SHOOT] = "7", ![BT_GAMEPAD_SHOOT] = "11", ![WIFI_SSID] = "a\"b", ![WIFI_MODE] = "1"] }

Tab == Permutations(MCTabs)
=============================================================================
