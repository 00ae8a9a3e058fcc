SPECIFICATION LiveSpec
CONSTANTS
  w1 = w1
  a = a b = b
  Windows = {w1}
  Uploads = {a, b}
  WindowOf <- OneWindow
  Chunks <- TwoAndThree
  BadImages = {a}
  MAX_PASTE_UPLOADS_PER_CLIENT = 1
  PASTE_UPLOAD_WINDOW = 2
CHECK_DEADLOCK FALSE
INVARIANTS SavedWhole UploadsAccounted
PROPERTIES UploadSettles
