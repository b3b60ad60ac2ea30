----------------------------- MODULE MCSettings -----------------------------
(***************************************************************************)
(* The layout and the sizes are those of the code; what is small is the    *)
(* set of requests.  MCForms stay within what a field can hold; every      *)
(* other set holds a request that does not.                                *)
(***************************************************************************)
EXTENDS SettingsStore

Chars(n, c) == [i \in 1 .. n |-> c]

\* The general form with every box filled in.
FullForm == [
  bPowerMonEnabled |-> 1, cPulseFreq |-> 100, iPulseMultiFactor |-> 17,
  cLimit |-> 120, cLimitHigh |-> 5, cLimitDebounce |-> 5,
  sPushURL |-> <<104, 47, 47, 115>>, sPushArg |-> <<118>>, iPushFreq |-> 600]

\* The longest texts that fit and numbers that are clamped.
LongForm == [
  bPulseLight |-> 1, cPulseFreq |-> 1, iPulseMultiFactor |-> 999,
  cLimit |-> 300, cLimitHigh |-> 255, cLimitDebounce |-> 7,
  sPushURL |-> Chars(36, 200) \o <<37, 50, 70, 43>>,   \* ... %2F +
  sPushArg |-> Chars(8, 97), iPushFreq |-> 2000]

\* A request with two arguments.
ShortForm == [iPulseMultiFactor |-> -3, iPushFreq |-> 1]

ClientForm == [clientSsid |-> <<65, 66>>, clientPassword |-> Chars(16, 112),
               clientUseWiFi |-> 1]
APForm == [apSsid |-> <<67>>, apPassword |-> Chars(14, 113)]

MCForms == {LongForm, ShortForm, ClientForm @@ APForm}
TwoForms == {LongForm, ClientForm @@ APForm}

\* What a field cannot hold: no delay, a factor of four digits, a long URL.
ZeroForms == {[FullForm EXCEPT !.cPulseFreq = 0], FullForm}
DefaultFactor == {[FullForm EXCEPT !.iPulseMultiFactor = 5660]}
LongURL == {ClientForm, [FullForm EXCEPT !.sPushURL = Chars(175, 97)]}

\* Erased flash; what lies behind cPlaceholder; where a programming stops.
Blank == [a \in Address |-> 255]
MCFlash == {Blank}
MCTails == {<< >>, Chars(100, 64)}
MCCuts == {0, 8, 100}
OneCut == {100}
=============================================================================
