SPECIFICATION Spec
CONSTANTS
  Sessions = {s1, s2, s3}
  Handles = {1, 2, 3}
  Files = {rf, ri, fonts}
  Fonts = fonts
  Rf = rf
  Ri = ri
  Posts = 2
  Blank = TRUE
  Font = Font
  Bad = Bad
  Missing = Missing
  MaxUploads = 2
  MaxChunks = 2
SYMMETRY MCSymmetry
INVARIANTS TypeOK UploadLands HandlesAccountedFor
