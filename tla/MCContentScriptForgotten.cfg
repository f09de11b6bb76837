CONSTANTS
  Frames = {"main"}
  Elements <- MCElements
  Layouts <- MCPage
  MaxMail = 1
SPECIFICATION Spec
PROPERTY ForgottenWhenGone
