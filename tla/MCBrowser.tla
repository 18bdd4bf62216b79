------------------------------ MODULE MCBrowser ------------------------------
\* The tabs of a browser, on a small instance.
EXTENDS Browser, TLC

BrowserSymmetry == Permutations(Tabs) \cup Permutations(Flights)

\* A behaviour is followed until a store is chosen late, a turn of the cookie is cut off
\* or lost, or a password is wrong: these excuse most of what the properties say, and
\* the session that lapses ends as that of a login elsewhere does.
Pursued == events \cap {"late", "cut", "lost", "typo", "lapse"} = {}
=============================================================================
