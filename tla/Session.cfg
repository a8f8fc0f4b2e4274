\* Two apps, two terminals, two upsets: edits, sign-outs, sessions ended, commands killed or failed.
SPECIFICATION Spec
CONSTANTS
  App = {a1, a2}
  Terminal = {t1, t2}
  MaxUpsets = 2
INVARIANTS ServesOwnApp RecordIsOfASignIn WritesNotStranded
PROPERTIES RemedyWorks
CHECK_DEADLOCK FALSE
