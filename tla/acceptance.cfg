SPECIFICATION Spec
CONSTANTS
  u1 = u1
  u2 = u2
  u3 = u3
  email = email
  sms = sms
  t1 = t1
  t2 = t2
  n1 = n1
  q1 = q1
  q2 = q2
  NoRow = NoRow
  Upserts = {u1, u2, u3}
  Channels = {email, sms}
  Asked <- Opposed
  Creations = {t1, t2}
  Names = {n1}
  Name <- SameName
  Requests = {q1, q2}
  Uses <- SameTemplate
  Wanted <- OneOrAny
SYMMETRY CreationSymmetry
INVARIANT TypeOK
INVARIANT LastWord
INVARIANT OneTemplate
PROPERTY ImplementsRegister
PROPERTY OptOutHonoured
PROPERTY NothingWithheld
CHECK_DEADLOCK FALSE
