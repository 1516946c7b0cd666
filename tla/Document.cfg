CONSTANTS
  Invoices = {v1, v2}
  Forms <- MCForms
  Sheets <- MCSheets
  Xmls <- MCXmls
  Short <- MCShort
  Rucs = {r1}
  Unusable = Unusable
  Demo = Demo
  Zero = Zero
  Blank = Blank
  NullText = NullText
  None = None
SYMMETRY Perms
SPECIFICATION Spec
INVARIANTS
  TypeOK
  
  
  Issuable
