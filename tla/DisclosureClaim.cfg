\* errors.py:268-270: both surfaces forward the same under either setting.
SPECIFICATION Spec
CONSTANT NoError = NoError
INVARIANT SurfacesDiscloseAlike
