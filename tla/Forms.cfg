\* Texts with blanks, a tag, a comment and a quote around an address, in two cases of letters.
CONSTANTS
  Addresses = {"a@x", "A@x"}
  Words = {"joe", "w1", "w2"}
  EmailTexts <- MCEmailTexts
  NameTexts <- MCNameTexts
  PasswordTexts <- MCPasswordTexts
  Tokens = {t1, t2}
  NoRow = NoRow
  None = None
SPECIFICATION Spec
INVARIANTS
  OneAccountPerSpelling
  TypedPasswordOpens
  ShownFormsAskTheSame
