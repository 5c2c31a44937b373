---- MODULE MCOnboarding ----
(* Small instances of Onboarding for TLC. *)
EXTENDS Onboarding
CONSTANTS d1, d2, s38
Symmetry == Permutations(Devices)
\* Nobody signed in asks for a code once more, and what happens beside the wizard
\* meets one form under way.  Forms overlap, with an event beside them, on a dress
\* that was given a second piece: that of a salon both browsers came to by the
\* wizard.
WizardOfSalon ==
    /\ shop.kind = "salon"
    /\ \A d \in Devices : cookie[d].user /\ cookie[d].path = "salon"
OneFormOrTwoPieces ==
    /\ \A d \in Devices : User(d) => ~cookie[d].pending
    /\ IF Len(items) = 2 THEN WizardOfSalon
       ELSE edits > 0 => \E d \in Devices : Free(d)
====
